---------------------------- MODULE Spec2Model ----------------------------
(***************************************************************************)
(* A model of the graph-analysis core of prednet-backend:                  *)
(*   - _compute_components (app/api/routes/proteins.py), the weighted      *)
(*     union-find with path halving, stepped one loop iteration at a time; *)
(*   - parse_gdf_to_cytoscape (app/api/routes/networks.py), stepped one    *)
(*     input line at a time;                                               *)
(*   - the request handlers get_proteins (proteins.py) and                 *)
(*     get_component_proteins_by_node (networks.py), each stepped one      *)
(*     stage of the handler at a time, over a small data directory.        *)
(* Python str values are sequences of one-character strings, so that       *)
(* strip, split, startswith, int() and str() are computed, not assumed.    *)
(* Python dicts are functions; their key set is the DOMAIN.                *)
(***************************************************************************)
EXTENDS Integers, Sequences, FiniteSets, TLC

VARIABLES
    pc,             \* position of the running function or handler
    sgd_map,        \* the cached result of _load_sgd_sys_to_gene_map()
    \* ---- _compute_components ------------------------------------------
    node_ids,       \* the node_ids argument (list[str], duplicates allowed)
    parent,         \* dict parent
    size,           \* dict size
    root_to_comp,   \* dict root_to_comp
    node_to_comp,   \* dict node_to_comp
    comp_sizes,     \* dict comp_sizes
    next_id,        \* next_id
    j,              \* number of node_ids entries the assignment loop has done
    joined,         \* history: the unordered pairs {a, b}, a # b, both in the
                    \* node set, that some consumed edge named
    ignored,        \* history: some consumed edge named an id outside the node set
    \* ---- parse_gdf_to_cytoscape -----------------------------------------
    lines,          \* gdf_content.strip().split('\n')
    li,             \* number of lines the loop has consumed
    nodes,          \* list nodes (each entry the data dict of a CytoscapeNode)
    edges,          \* list edges (each entry the data dict of a CytoscapeEdge)
    node_attributes,\* list node_attributes
    edge_attributes,\* list edge_attributes
    in_edges,       \* flag in_edges
    \* ---- the request handlers ------------------------------------------
    data_dir,       \* the data directory: network name -> file name -> lines
    request,        \* the parameters of the request being handled
    response,       \* what the caller receives: status and body
    \* ---- get_proteins ---------------------------------------------------
    gdf_files,      \* list gdf_files
    fi,             \* number of gdf_files the collecting loop has done
    protein_to_files, \* dict protein_to_files
    protein_to_types, \* dict protein_to_types
    all_proteins,   \* list all_proteins
    total,          \* total
    \* ---- get_component_proteins_by_node ---------------------------------
    by_node,        \* the locals of the handler, by name
    \* ---- get_components_membership -------------------------------------
    membership,     \* the locals of the handler, by name
    \* ---- the token-producing paths -------------------------------------
    token_sets,     \* the token set each path reported for one node
    \* ---- _load_sgd_sys_to_gene_map -------------------------------------
    sgd_file,       \* data/SGD_features.tab on disk
    sgd_cache,      \* the cache that lru_cache(maxsize=1) keeps
    sgd_calls,      \* the calls of the worker threads, by thread
    \* ---- compute_spring_layout -----------------------------------------
    layout,         \* the locals of the handler, by name
    \* ---- UniProtCache ---------------------------------------------------
    _cache,         \* dict self._cache: protein id -> (timestamp, data)
    _ttl,           \* self._ttl, in hours
    now,            \* what datetime.now() returns, in hours
    cache_call,     \* the last call of get or set, with what it returned
    last_set,       \* history: protein id -> time and data of its last set
    \* ---- UniProtClient and fetch_multiple_proteins ----------------------
    _client,        \* self._client is an httpx.AsyncClient (TRUE) or None (FALSE)
    tasks,          \* the calls of fetch_protein_features, each with its locals
    \* ---- the favorites routes ------------------------------------------
    favorite_component, \* the table favorite_component: id -> row
    uuids,          \* the number of ids uuid_generate_v4() has issued
    fav_calls       \* the request each worker thread handles, with its locals

ufVars == <<node_ids, parent, size, root_to_comp, node_to_comp, comp_sizes,
            next_id, j, joined, ignored>>

gdfVars == <<lines, li, nodes, edges, node_attributes, edge_attributes, in_edges>>

protVars == <<gdf_files, fi, protein_to_files, protein_to_types, all_proteins, total>>

\* the locals of the handlers other than get_proteins and
\* get_component_proteins_by_node
sgdVars == <<sgd_file, sgd_cache, sgd_calls>>

\* the variables of UniProtCache and of the functions that use it
cacheVars == <<_cache, _ttl, now, cache_call, last_set>>

clientVars == <<_client, tasks>>

uniprotVars == <<cacheVars, clientVars>>

\* the variables of the services beside the graph analysis
favVars == <<favorite_component, uuids, fav_calls>>

serviceVars == <<uniprotVars, favVars>>

otherVars == <<membership, token_sets, sgdVars, layout, serviceVars>>

handlerVars == <<data_dir, request, response, protVars, by_node, otherVars>>

vars == <<pc, sgd_map, ufVars, gdfVars, handlerVars>>

\* what a step of one function leaves alone
notUF == <<sgd_map, gdfVars, handlerVars>>

notGdf == <<sgd_map, ufVars, handlerVars>>

\* what a step of get_proteins or get_component_proteins_by_node leaves alone
notHandlers == <<ufVars, gdfVars, otherVars>>

\* the variables of a function that is not running
UFIdle ==
    /\ node_ids = <<>> /\ parent = <<>> /\ size = <<>> /\ root_to_comp = <<>>
    /\ node_to_comp = <<>> /\ comp_sizes = <<>> /\ next_id = 0 /\ j = 0
    /\ joined = {} /\ ignored = FALSE

GdfIdle ==
    /\ lines = <<>> /\ li = 0 /\ nodes = <<>> /\ edges = <<>>
    /\ node_attributes = <<>> /\ edge_attributes = <<>> /\ in_edges = FALSE

ProtIdle ==
    /\ gdf_files = <<>> /\ fi = 0 /\ protein_to_files = <<>>
    /\ protein_to_types = <<>> /\ all_proteins = <<>> /\ total = 0

SgdIdle ==
    /\ sgd_file = <<>> /\ sgd_cache = <<>> /\ sgd_calls = <<>>

UniProtIdle ==
    /\ _cache = <<>> /\ _ttl = 0 /\ now = 0 /\ cache_call = <<>> /\ last_set = <<>>
    /\ _client = FALSE /\ tasks = <<>>

FavoritesIdle ==
    /\ favorite_component = <<>> /\ uuids = 0 /\ fav_calls = <<>>

ServicesIdle == UniProtIdle /\ FavoritesIdle

OtherIdle ==
    /\ membership = <<>>
    /\ token_sets = <<>>
    /\ SgdIdle
    /\ layout = <<>>
    /\ ServicesIdle

\* no request is being handled
HandlersIdle ==
    /\ data_dir = <<>> /\ request = <<>> /\ response = <<>>
    /\ ProtIdle
    /\ by_node = <<>>
    /\ OtherIdle

-----------------------------------------------------------------------------
(* Python containers *)

Range(s) == {s[i] : i \in DOMAIN s}

\* d[k] = v on a dict
Put(d, k, v) == [x \in (DOMAIN d) \cup {k} |-> IF x = k THEN v ELSE d[x]]

\* d.get(k, default)
Get(d, k, default) == IF k \in DOMAIN d THEN d[k] ELSE default

EmptyDict == <<>>

-----------------------------------------------------------------------------
(* Bounds of the union-find specification *)

\* longest node_ids list
MaxNodes == 4

\* the ids that node lists and edges are drawn from; an id that is not in
\* the node list is an edge endpoint outside the node set
IdSeq == <<"a", "b", "c", "d", "e">>

Ids == Range(IdSeq)

\* Node lists up to renaming of ids: the k-th distinct id of a list is
\* IdSeq[k].  Repeated ids are kept (the parser does not merge them).
NodeIdLists ==
    {s \in UNION {[1..n -> Ids] : n \in 0..MaxNodes} :
        \A i \in DOMAIN s : \A k \in DOMAIN IdSeq :
            s[i] = IdSeq[k] =>
                \A m \in 1..(k - 1) : \E i2 \in 1..(i - 1) : s[i2] = IdSeq[m]}

-----------------------------------------------------------------------------
(* _compute_components: find, union and the id-assignment loop body *)

RECURSIVE find(_, _)
\* while parent[x] != x: parent[x] = parent[parent[x]]; x = parent[x]
\* returns the root and the parent map as path halving left it
find(p, x) ==
    IF p[x] = x
    THEN [root |-> x, parent |-> p]
    ELSE LET p2 == [p EXCEPT ![x] = p[p[x]]]
         IN  find(p2, p2[x])

\* a union that links the two named nodes without looking up their roots
union_no_find(p, sz, a, b) ==
    IF a = b THEN [parent |-> p, size |-> sz]
    ELSE [parent |-> [p EXCEPT ![b] = a],
          size   |-> [sz EXCEPT ![a] = sz[a] + sz[b]]]

\* a union that hangs the root of the larger tree under that of the smaller
union_larger_under_smaller(p, sz, a, b) ==
    LET fa == find(p, a)
        fb == find(fa.parent, b)
        ra == fa.root
        rb == fb.root
        p2 == fb.parent
        big   == IF sz[ra] < sz[rb] THEN rb ELSE ra
        small == IF sz[ra] < sz[rb] THEN ra ELSE rb
    IN  IF ra = rb
        THEN [parent |-> p2, size |-> sz]
        ELSE [parent |-> [p2 EXCEPT ![big] = small],
              size   |-> [sz EXCEPT ![small] = sz[big] + sz[small]]]

\* union(a, b) on the maps p (parent) and sz (size)
union(p, sz, a, b) ==
    LET fa == find(p, a)
        fb == find(fa.parent, b)
        ra == fa.root
        rb == fb.root
        p2 == fb.parent
        big   == IF sz[ra] < sz[rb] THEN rb ELSE ra
        small == IF sz[ra] < sz[rb] THEN ra ELSE rb
    IN  IF ra = rb
        THEN [parent |-> p2, size |-> sz]
        ELSE [parent |-> [p2 EXCEPT ![small] = big],
              size   |-> [sz EXCEPT ![big] = sz[big] + sz[small]]]

\* for a, b in edges: if a in parent and b in parent: union(a, b)
union_edge(p, sz, a, b) ==
    IF a \in DOMAIN p /\ b \in DOMAIN p
    THEN union(p, sz, a, b)
    ELSE [parent |-> p, size |-> sz]

\* position of the first entry of list s equal to x
FirstIndex(s, x) == CHOOSE i \in DOMAIN s : s[i] = x /\ \A k \in 1..(i - 1) : s[k] # x

\* an id-assignment that numbers a component by where its root stands in ids
assign_node_by_root(st, ids, n) ==
    LET f   == find(st.parent, n)
        cid == FirstIndex(ids, f.root) - 1
    IN  [parent       |-> f.parent,
         root_to_comp |-> Put(st.root_to_comp, f.root, cid),
         node_to_comp |-> Put(st.node_to_comp, n, cid),
         comp_sizes   |-> Put(st.comp_sizes, cid, Get(st.comp_sizes, cid, 0) + 1),
         next_id      |-> st.next_id]

\* one iteration of "for n in node_ids" of the id assignment; ids is the
\* node_ids list being iterated
assign_node(st, ids, n) ==
    LET f     == find(st.parent, n)
        r     == f.root
        fresh == r \notin DOMAIN st.root_to_comp
        r2c   == IF fresh THEN Put(st.root_to_comp, r, st.next_id) ELSE st.root_to_comp
        cs0   == IF fresh THEN Put(st.comp_sizes, st.next_id, 0) ELSE st.comp_sizes
        nid   == IF fresh THEN st.next_id + 1 ELSE st.next_id
        cid   == r2c[r]
    IN  [parent       |-> f.parent,
         root_to_comp |-> r2c,
         node_to_comp |-> Put(st.node_to_comp, n, cid),
         comp_sizes   |-> [cs0 EXCEPT ![cid] = cs0[cid] + 1],
         next_id      |-> nid]

RECURSIVE union_all(_, _, _)
\* the whole loop "for a, b in edges" over an edge list es
union_all(p, sz, es) ==
    IF es = <<>> THEN [parent |-> p, size |-> sz]
    ELSE LET u == union_edge(p, sz, es[1][1], es[1][2])
         IN  union_all(u.parent, u.size, Tail(es))

RECURSIVE assign_all(_, _, _)
\* the whole loop "for n in node_ids", from entry k of ids on
assign_all(st, ids, k) ==
    IF k > Len(ids) THEN st
    ELSE assign_all(assign_node(st, ids, ids[k]), ids, k + 1)

\* _compute_components(node_ids, edges) -> (node_to_comp, comp_sizes)
_compute_components(ids, es) ==
    LET p0 == [n \in Range(ids) |-> n]
        s0 == [n \in Range(ids) |-> 1]
        u  == union_all(p0, s0, es)
        st == assign_all([parent |-> u.parent, root_to_comp |-> EmptyDict,
                          node_to_comp |-> EmptyDict, comp_sizes |-> EmptyDict,
                          next_id |-> 0], ids, 1)
    IN  [node_to_comp |-> st.node_to_comp, comp_sizes |-> st.comp_sizes]

-----------------------------------------------------------------------------
(* The union-find specification: _compute_components, one loop iteration   *)
(* per step.  The edge list is consumed one edge at a time; the model      *)
(* keeps of the consumed edges what connectivity depends on (joined,       *)
(* ignored), so edge lists of every length and order are covered.          *)

InitUF ==
    /\ node_ids \in NodeIdLists
    /\ parent = [n \in Range(node_ids) |-> n]
    /\ size = [n \in Range(node_ids) |-> 1]
    /\ root_to_comp = EmptyDict
    /\ node_to_comp = EmptyDict
    /\ comp_sizes = EmptyDict
    /\ next_id = 0
    /\ j = 0
    /\ pc = "union"
    /\ joined = {}
    /\ ignored = FALSE
    /\ sgd_map = <<>>
    /\ GdfIdle
    /\ HandlersIdle

\* one iteration of "for a, b in edges" with the next edge (a, b)
UnionEdge ==
    /\ pc = "union"
    /\ \E a \in Ids, b \in Ids :
         LET u == union_edge(parent, size, a, b)
             inside == a \in Range(node_ids) /\ b \in Range(node_ids)
         IN  /\ parent' = u.parent
             /\ size' = u.size
             /\ joined' = IF inside /\ a # b THEN joined \cup {{a, b}} ELSE joined
             /\ ignored' = (ignored \/ ~inside)
    /\ UNCHANGED <<node_ids, root_to_comp, node_to_comp, comp_sizes, next_id, j, pc>>
    /\ UNCHANGED notUF

\* the edge list is exhausted: the assignment loop begins
EdgesDone ==
    /\ pc = "union"
    /\ pc' = "assign"
    /\ UNCHANGED <<node_ids, parent, size, root_to_comp, node_to_comp, comp_sizes,
                   next_id, j, joined, ignored>>
    /\ UNCHANGED notUF

\* one iteration of "for n in node_ids"
AssignNode ==
    /\ pc = "assign"
    /\ j < Len(node_ids)
    /\ LET st == assign_node([parent |-> parent, root_to_comp |-> root_to_comp,
                              node_to_comp |-> node_to_comp, comp_sizes |-> comp_sizes,
                              next_id |-> next_id], node_ids, node_ids[j + 1])
       IN  /\ parent' = st.parent
           /\ root_to_comp' = st.root_to_comp
           /\ node_to_comp' = st.node_to_comp
           /\ comp_sizes' = st.comp_sizes
           /\ next_id' = st.next_id
    /\ j' = j + 1
    /\ UNCHANGED <<node_ids, size, pc, joined, ignored>>
    /\ UNCHANGED notUF

\* return node_to_comp, comp_sizes
ReturnComponents ==
    /\ pc = "assign"
    /\ j = Len(node_ids)
    /\ pc' = "done"
    /\ UNCHANGED <<node_ids, parent, size, root_to_comp, node_to_comp, comp_sizes,
                   next_id, j, joined, ignored>>
    /\ UNCHANGED notUF

NextUF == UnionEdge \/ EdgesDone \/ AssignNode \/ ReturnComponents

SpecUF == InitUF /\ [][NextUF]_vars

-----------------------------------------------------------------------------
(* Connectivity, stated on the consumed edges and not on the parent map *)

NodeSet == Range(node_ids)

RECURSIVE Closure(_)
\* the nodes joined to some node of S by a path of counted edges
Closure(S) ==
    LET T == S \cup {v \in NodeSet : \E u \in S : {u, v} \in joined}
    IN  IF T = S THEN S ELSE Closure(T)

ReachFrom(x) == Closure({x})

\* position in node_ids of the first node of x's connected component
Discovery(x) == CHOOSE i \in DOMAIN node_ids :
                    /\ node_ids[i] \in ReachFrom(x)
                    /\ \A k \in 1..(i - 1) : node_ids[k] \notin ReachFrom(x)

\* the number of components met in node_ids before x's component is met
DiscoveryRank(x) == Cardinality({Discovery(y) : y \in {z \in NodeSet : Discovery(z) < Discovery(x)}})

\* C1: when _compute_components returns, every node id has exactly one
\* component id, and two node ids have the same component id if and only
\* if a path of edges joins them (edges undirected, only edges with both
\* endpoints in the node set counting).
C1_SameComponentIffPath ==
    pc = "done" =>
        /\ DOMAIN node_to_comp = NodeSet
        /\ \A x \in NodeSet : node_to_comp[x] \in Nat
        /\ \A x \in NodeSet, y \in NodeSet :
               (node_to_comp[x] = node_to_comp[y]) <=> (y \in ReachFrom(x))

\* C1 witness: a finished run in which two nodes share a component only
\* through a third node, another node is in a different component, and an
\* edge naming an id outside the node set was consumed.
C1_Witness ==
    /\ pc = "done"
    /\ ignored
    /\ \E x \in NodeSet, y \in NodeSet :
          x # y /\ {x, y} \notin joined /\ node_to_comp[x] = node_to_comp[y]
    /\ \E x \in NodeSet, y \in NodeSet : node_to_comp[x] # node_to_comp[y]

\* C2: the component ids of a graph with k components are exactly 0..k-1,
\* given in order of first discovery along node_ids: a node's id is the
\* number of components met before its own, whatever the union-find roots
\* are and in whatever order the edges were consumed.
C2_IdsByFirstDiscovery ==
    pc = "done" =>
        /\ \A x \in NodeSet : node_to_comp[x] = DiscoveryRank(x)
        /\ Range(node_to_comp) = 0..(Cardinality({ReachFrom(x) : x \in NodeSet}) - 1)
        /\ node_ids # <<>> => node_to_comp[node_ids[1]] = 0

\* C2 witness: a finished run with at least two components in which the
\* root of component 0 is not the first listed node and a later component
\* has more than one node.
C2_Witness ==
    /\ pc = "done"
    /\ Len(node_ids) >= 3
    /\ parent[node_ids[1]] # node_ids[1]
    /\ \E x \in NodeSet, y \in NodeSet :
          x # y /\ node_to_comp[x] = node_to_comp[y] /\ node_to_comp[x] > 0

-----------------------------------------------------------------------------
(* Python str: a sequence of one-character strings *)

Digits == <<"0", "1", "2", "3", "4", "5", "6", "7", "8", "9">>

LowerCase == <<"a", "b", "c", "d", "e", "f", "g", "h", "i", "j", "k", "l", "m",
               "n", "o", "p", "q", "r", "s", "t", "u", "v", "w", "x", "y", "z">>

UpperCase == <<"A", "B", "C", "D", "E", "F", "G", "H", "I", "J", "K", "L", "M",
               "N", "O", "P", "Q", "R", "S", "T", "U", "V", "W", "X", "Y", "Z">>

\* str.isspace of one character
IsSpace(c) == c \in {" ", "\t", "\r", "\n"}

IsDigitChar(c) == c \in Range(Digits)

DigitVal(c) == (CHOOSE i \in DOMAIN Digits : Digits[i] = c) - 1

\* s[a:] for 1-based a
From(s, a) == SubSeq(s, a, Len(s))

RECURSIVE lstrip(_)
lstrip(s) == IF s # <<>> /\ IsSpace(s[1]) THEN lstrip(Tail(s)) ELSE s

RECURSIVE rstrip(_)
rstrip(s) == IF s # <<>> /\ IsSpace(s[Len(s)]) THEN rstrip(SubSeq(s, 1, Len(s) - 1)) ELSE s

\* s.strip()
strip(s) == rstrip(lstrip(s))

\* s.startswith(prefix)
startswith(s, prefix) == Len(s) >= Len(prefix) /\ SubSeq(s, 1, Len(prefix)) = prefix

\* s.endswith(suffix)
endswith(s, suffix) ==
    Len(s) >= Len(suffix) /\ SubSeq(s, Len(s) - Len(suffix) + 1, Len(s)) = suffix

\* c in s, for one character c
contains(s, c) == \E i \in DOMAIN s : s[i] = c

RECURSIVE split(_, _)
\* s.split(c) for a one-character separator c: never the empty list
split(s, c) ==
    IF ~contains(s, c) THEN <<s>>
    ELSE LET i == CHOOSE k \in DOMAIN s : s[k] = c /\ \A m \in 1..(k - 1) : s[m] # c
         IN  <<SubSeq(s, 1, i - 1)>> \o split(From(s, i + 1), c)

RECURSIVE split_ws(_)
\* s.split(): the maximal runs of non-space characters
split_ws(s) ==
    LET t == lstrip(s)
    IN  IF t = <<>> THEN <<>>
        ELSE IF \A k \in DOMAIN t : ~IsSpace(t[k]) THEN <<t>>
        ELSE LET i == CHOOSE k \in DOMAIN t : IsSpace(t[k]) /\ \A m \in 1..(k - 1) : ~IsSpace(t[m])
             IN  <<SubSeq(t, 1, i - 1)>> \o split_ws(From(t, i + 1))

RECURSIVE join(_, _)
\* sep.join(parts)
join(sep, parts) ==
    IF parts = <<>> THEN <<>>
    ELSE IF Len(parts) = 1 THEN parts[1]
    ELSE parts[1] \o sep \o join(sep, Tail(parts))

RECURSIVE remove_char(_, _)
\* s.replace(c, '') for one character c
remove_char(s, c) ==
    IF s = <<>> THEN <<>>
    ELSE (IF s[1] = c THEN <<>> ELSE <<s[1]>>) \o remove_char(Tail(s), c)

\* s.isdigit() (ASCII digits)
isdigit(s) == s # <<>> /\ \A i \in DOMAIN s : IsDigitChar(s[i])

upper_char(c) ==
    IF c \in Range(LowerCase)
    THEN UpperCase[CHOOSE i \in DOMAIN LowerCase : LowerCase[i] = c]
    ELSE c

lower_char(c) ==
    IF c \in Range(UpperCase)
    THEN LowerCase[CHOOSE i \in DOMAIN UpperCase : UpperCase[i] = c]
    ELSE c

\* s.upper()
upper(s) == [i \in DOMAIN s |-> upper_char(s[i])]

\* s.lower()
lower(s) == [i \in DOMAIN s |-> lower_char(s[i])]

RECURSIVE digits_value(_)
\* the number a string of digits denotes
digits_value(s) ==
    IF s = <<>> THEN 0 ELSE 10 * digits_value(SubSeq(s, 1, Len(s) - 1)) + DigitVal(s[Len(s)])

RECURSIVE nat_str(_)
\* str(n) for n >= 0
nat_str(n) == IF n < 10 THEN <<Digits[n + 1]>> ELSE nat_str(n \div 10) \o <<Digits[(n % 10) + 1]>>

RECURSIVE strip_trailing_zeros(_)
strip_trailing_zeros(s) ==
    IF s # <<>> /\ s[Len(s)] = "0" THEN strip_trailing_zeros(SubSeq(s, 1, Len(s) - 1)) ELSE s

(* Python values of a parsed field: str, int or float.  A float is kept as  *)
(* its sign, integer part and fraction digits (trailing zeros dropped),    *)
(* which is what repr() prints for the magnitudes a short field can hold   *)
(* (1e-4 <= |x| < 1e16, or zero).                                          *)
PyStr(s) == [t |-> "str", v |-> s]

PyInt(n) == [t |-> "int", v |-> n]

PyFloat(neg, ip, fd) == [t |-> "float", neg |-> neg, ip |-> ip, fd |-> fd]

\* int(s) for s made of digits and '-': [ok, v]; ok = FALSE is ValueError
to_int(s) ==
    IF isdigit(s) THEN [ok |-> TRUE, v |-> PyInt(digits_value(s))]
    ELSE IF s # <<>> /\ s[1] = "-" /\ isdigit(Tail(s))
         THEN [ok |-> TRUE, v |-> PyInt(0 - digits_value(Tail(s)))]
    ELSE [ok |-> FALSE, v |-> PyStr(s)]

\* float(s) for s made of digits, '.' and '-' with at least one digit
to_float(s) ==
    LET neg  == s # <<>> /\ s[1] = "-"
        body == IF neg THEN Tail(s) ELSE s
        ps   == split(body, ".")
    IN  IF ~contains(body, "-") /\ Len(ps) = 2 /\ (ps[1] # <<>> \/ ps[2] # <<>>)
        THEN [ok |-> TRUE,
              v  |-> PyFloat(neg, digits_value(ps[1]), strip_trailing_zeros(ps[2]))]
        ELSE [ok |-> FALSE, v |-> PyStr(s)]

\* the type conversion both row parsers of parse_gdf_to_cytoscape apply:
\* if value.replace('.', '').replace('-', '').isdigit():
\*     try: float(value) if '.' in value else int(value)
\*     except ValueError: value
\* else: value
coerce(value) ==
    IF isdigit(remove_char(remove_char(value, "."), "-"))
    THEN (IF contains(value, ".") THEN to_float(value).v ELSE to_int(value).v)
    ELSE PyStr(value)

\* str(x)
str(x) ==
    IF x.t = "str" THEN x.v
    ELSE IF x.t = "int" THEN (IF x.v < 0 THEN <<"-">> \o nat_str(0 - x.v) ELSE nat_str(x.v))
    ELSE (IF x.neg THEN <<"-">> ELSE <<>>) \o nat_str(x.ip) \o <<".">>
         \o (IF x.fd = <<>> THEN <<"0">> ELSE x.fd)

\* isinstance(x, str)
is_str(x) == x.t = "str"

-----------------------------------------------------------------------------
(* String literals of the source *)

\* 'nodedef>'
S_nodedef == <<"n", "o", "d", "e", "d", "e", "f", ">">>

\* 'edgedef>'
S_edgedef == <<"e", "d", "g", "e", "d", "e", "f", ">">>

\* 'name'
S_name == <<"n", "a", "m", "e">>

\* 'id'
S_id == <<"i", "d">>

\* 'label'
S_label == <<"l", "a", "b", "e", "l">>

\* 'type'
S_type == <<"t", "y", "p", "e">>

\* 'node1'
S_node1 == <<"n", "o", "d", "e", "1">>

\* 'node2'
S_node2 == <<"n", "o", "d", "e", "2">>

\* 'source'
S_source == <<"s", "o", "u", "r", "c", "e">>

\* 'target'
S_target == <<"t", "a", "r", "g", "e", "t">>

\* 'label_sys'
S_label_sys == <<"l", "a", "b", "e", "l", "_", "s", "y", "s">>

\* 'label_gene'
S_label_gene == <<"l", "a", "b", "e", "l", "_", "g", "e", "n", "e">>

\* 'sys_name'
S_sys_name == <<"s", "y", "s", "_", "n", "a", "m", "e">>

\* 'gene_name'
S_gene_name == <<"g", "e", "n", "e", "_", "n", "a", "m", "e">>

-----------------------------------------------------------------------------
(* parse_gdf_to_cytoscape *)

\* [attr.split()[0] for attr in header.split(',')]: [ok, attrs];
\* ok = FALSE is the IndexError of an empty attribute
header_attributes(header) ==
    LET parts == split(header, ",")
    IN  IF \E i \in DOMAIN parts : split_ws(parts[i]) = <<>>
        THEN [ok |-> FALSE, attrs |-> <<>>]
        ELSE [ok |-> TRUE, attrs |-> [i \in DOMAIN parts |-> split_ws(parts[i])[1]]]

\* if value.startswith("'") and value.endswith("'"): value = value[1:-1]
unquote(value) ==
    IF startswith(value, <<"'">>) /\ endswith(value, <<"'">>)
    THEN SubSeq(value, 2, Len(value) - 1)
    ELSE value

RECURSIVE row_info(_, _, _, _, _)
\* for i, attr in enumerate(attributes): if i < len(data): info[attr] = ...
\* (quoted: the node rows strip quotes, the edge rows do not)
row_info(attributes, data, i, info, quoted) ==
    IF i > Len(attributes) THEN info
    ELSE IF i > Len(data) THEN row_info(attributes, data, i + 1, info, quoted)
    ELSE LET v0 == strip(data[i])
             v1 == IF quoted THEN unquote(v0) ELSE v0
         IN  row_info(attributes, data, i + 1, Put(info, attributes[i], coerce(v1)), quoted)

\* {'id': f"{source_id}-{target_id}", 'source': source_id, 'target': target_id,
\*  **{k: v for k, v in edge_info.items() if k not in ['node1', 'node2']}}
cytoscape_edge(edge_info, source_id, target_id) ==
    [k \in {S_id, S_source, S_target} \cup ((DOMAIN edge_info) \ {S_node1, S_node2}) |->
        IF k \in (DOMAIN edge_info) \ {S_node1, S_node2} THEN edge_info[k]
        ELSE IF k = S_id THEN PyStr(source_id \o <<"-">> \o target_id)
        ELSE IF k = S_source THEN PyStr(source_id)
        ELSE PyStr(target_id)]

\* the edges a parsed row adds: with node1 and node2 the Cytoscape edge,
\* otherwise (the fallback branch) the raw edge_info
edge_of(edge_info) ==
    IF S_node1 \in DOMAIN edge_info /\ S_node2 \in DOMAIN edge_info
    THEN <<cytoscape_edge(edge_info, str(edge_info[S_node1]), str(edge_info[S_node2]))>>
    ELSE <<edge_info>>

\* an edge row: if len(edge_data) >= 2
edge_fields(edge_attrs, edge_data) ==
    IF Len(edge_data) < 2 THEN <<>>
    ELSE edge_of(row_info(edge_attrs, edge_data, 1, EmptyDict, FALSE))

edge_row(edge_attrs, line) == edge_fields(edge_attrs, split(line, ","))

\* [sgd_map.get(tok.upper(), tok) for tok in tokens]
map_tokens(tokens, map) == [i \in DOMAIN tokens |-> Get(map, upper(tokens[i]), tokens[i])]

enrich_label(node_info, label_sys, label_gene) ==
    Put(Put(Put(Put(node_info, S_label_sys, label_sys), S_label_gene, label_gene),
            S_sys_name, label_sys), S_gene_name, label_gene)

enrich_tokens(node_info, sys_tokens, map) ==
    enrich_label(node_info, PyStr(join(<<" ">>, sys_tokens)),
                 PyStr(join(<<" ">>, map_tokens(sys_tokens, map))))

enrich_single(node_info, sys_candidate, map) ==
    Put(Put(node_info, S_sys_name, PyStr(sys_candidate)),
        S_gene_name, PyStr(Get(map, upper(strip(sys_candidate)), sys_candidate)))

\* the enrichment block: label_sys, label_gene, sys_name, gene_name
enrich(node_info, map) ==
    IF is_str(node_info[S_label]) /\ strip(node_info[S_label].v) # <<>>
    THEN enrich_tokens(node_info, split_ws(node_info[S_label].v), map)
    ELSE enrich_single(node_info, str(Get(node_info, S_name, node_info[S_id])), map)

\* if 'name' in node_info: node_info['id'] = str(node_info['name'])
\* elif 'id' not in node_info: node_info['id'] = str(node_info[first_key])
\* (the first key inserted is the first declared attribute)
with_id(node_info, node_attrs) ==
    IF S_name \in DOMAIN node_info
    THEN Put(node_info, S_id, PyStr(str(node_info[S_name])))
    ELSE IF S_id \notin DOMAIN node_info
    THEN Put(node_info, S_id, PyStr(str(node_info[node_attrs[1]])))
    ELSE node_info

\* if 'label' not in node_info and 'name' in node_info: label = str(name)
\* elif 'label' not in node_info: label = str(id)
with_label(node_info) ==
    IF S_label \in DOMAIN node_info THEN node_info
    ELSE IF S_name \in DOMAIN node_info
    THEN Put(node_info, S_label, PyStr(str(node_info[S_name])))
    ELSE Put(node_info, S_label, PyStr(str(node_info[S_id])))

\* the node dict made of a parsed row: [ok, node]; ok = FALSE is the
\* IndexError of list(node_info.keys())[0] on a row with no attribute
node_of(node_info, node_attrs, map) ==
    IF DOMAIN node_info = {}
    THEN [ok |-> FALSE, node |-> EmptyDict]
    ELSE [ok |-> TRUE, node |-> enrich(with_label(with_id(node_info, node_attrs)), map)]

\* a node row
node_row(node_attrs, line, map) ==
    node_of(row_info(node_attrs, split(line, ","), 1, EmptyDict, TRUE), node_attrs, map)

(* The branches of the body of "for line in lines", on the parser state    *)
(* st = [nodes, edges, node_attributes, edge_attributes, in_edges, raised] *)
(* and the stripped line.                                                  *)

set_node_attributes(st, h) ==
    IF h.ok THEN [st EXCEPT !.node_attributes = h.attrs] ELSE [st EXCEPT !.raised = TRUE]

\* if line.startswith('nodedef>')
on_nodedef(st, line) == set_node_attributes(st, header_attributes(From(line, 9)))

set_edge_attributes(st, h) ==
    IF h.ok THEN [st EXCEPT !.edge_attributes = h.attrs, !.in_edges = TRUE]
    ELSE [st EXCEPT !.raised = TRUE]

\* elif line.startswith('edgedef>')
on_edgedef(st, line) == set_edge_attributes(st, header_attributes(From(line, 9)))

\* elif in_edges
on_edge_line(st, line) == [st EXCEPT !.edges = st.edges \o edge_row(st.edge_attributes, line)]

append_node(st, r) ==
    IF r.ok THEN [st EXCEPT !.nodes = Append(st.nodes, r.node)] ELSE [st EXCEPT !.raised = TRUE]

\* else
on_node_line(st, line, map) == append_node(st, node_row(st.node_attributes, line, map))

\* which branch a stripped line takes
line_kind(line, in_edges_now) ==
    IF line = <<>> THEN "blank"
    ELSE IF startswith(line, S_nodedef) THEN "nodedef"
    ELSE IF startswith(line, S_edgedef) THEN "edgedef"
    ELSE IF in_edges_now THEN "edge" ELSE "node"

gdf_dispatch(st, line, kind, map) ==
    IF kind = "blank" THEN st
    ELSE IF kind = "nodedef" THEN on_nodedef(st, line)
    ELSE IF kind = "edgedef" THEN on_edgedef(st, line)
    ELSE IF kind = "edge" THEN on_edge_line(st, line)
    ELSE on_node_line(st, line, map)

\* the body of "for line in lines"
gdf_line(st, line, map) == gdf_dispatch(st, line, line_kind(line, st.in_edges), map)

RECURSIVE gdf_lines(_, _, _)
gdf_lines(st, ls, map) ==
    IF ls = <<>> \/ st.raised THEN st
    ELSE gdf_lines(gdf_line(st, strip(ls[1]), map), Tail(ls), map)

\* parse_gdf_to_cytoscape on the lines of gdf_content: the parser state at
\* return, or raised = TRUE when an exception left the function
parse_gdf_to_cytoscape(ls, map) ==
    gdf_lines([nodes |-> <<>>, edges |-> <<>>, node_attributes |-> <<>>,
               edge_attributes |-> <<>>, in_edges |-> FALSE, raised |-> FALSE], ls, map)

-----------------------------------------------------------------------------
(* Inputs of the parser specification *)

\* "nodedef>name VARCHAR,label VARCHAR"
L_nodedef_name_label ==
    <<"n", "o", "d", "e", "d", "e", "f", ">", "n", "a", "m", "e", " ", "V", "A", "R", "C", "H", "A", "R", ",", "l", "a", "b", "e", "l", " ", "V", "A", "R", "C", "H", "A", "R">>

\* "nodedef>id,label"
L_nodedef_id_label ==
    <<"n", "o", "d", "e", "d", "e", "f", ">", "i", "d", ",", "l", "a", "b", "e", "l">>

\* "edgedef>node1,node2"
L_edgedef_node1_node2 ==
    <<"e", "d", "g", "e", "d", "e", "f", ">", "n", "o", "d", "e", "1", ",", "n", "o", "d", "e", "2">>

\* "edgedef>weight,node1,node2"
L_edgedef_weight_node1_node2 ==
    <<"e", "d", "g", "e", "d", "e", "f", ">", "w", "e", "i", "g", "h", "t", ",", "n", "o", "d", "e", "1", ",", "n", "o", "d", "e", "2">>

\* "1,'Y1 y2'"
L_1_Y1_y2 ==
    <<"1", ",", "'", "Y", "1", " ", "y", "2", "'">>

\* "2,Y1"
L_2_Y1 ==
    <<"2", ",", "Y", "1">>

\* "1,2"
L_1_2 ==
    <<"1", ",", "2">>

\* ",Y1"
L_empty_Y1 ==
    <<",", "Y", "1">>

\* "3"
L_3 ==
    <<"3">>

\* "  "
L_blank ==
    <<" ", " ">>

GdfLines == {L_nodedef_name_label,
             L_nodedef_id_label,
             L_edgedef_node1_node2,
             L_edgedef_weight_node1_node2,
             L_1_Y1_y2,
             L_2_Y1,
             L_1_2,
             L_empty_Y1,
             L_3,
             L_blank}

\* longest input, in lines
MaxLines == 4

GdfContents == UNION {[1..n -> GdfLines] : n \in 0..MaxLines}

\* 'Y1' -> 'G1'
SgdY1G1 == Put(EmptyDict, <<"Y", "1">>, <<"G", "1">>)

\* the mappings _load_sgd_sys_to_gene_map() may have cached: the reference
\* file is missing, or it names Y1 as G1
SgdMaps == {EmptyDict, SgdY1G1}

-----------------------------------------------------------------------------
(* The parser specification: parse_gdf_to_cytoscape, one line per step *)

InitGDF ==
    /\ lines \in GdfContents
    /\ sgd_map \in SgdMaps
    /\ li = 0
    /\ nodes = <<>>
    /\ edges = <<>>
    /\ node_attributes = <<>>
    /\ edge_attributes = <<>>
    /\ in_edges = FALSE
    /\ pc = "parse"
    /\ UFIdle
    /\ HandlersIdle

ParserState ==
    [nodes |-> nodes, edges |-> edges, node_attributes |-> node_attributes,
     edge_attributes |-> edge_attributes, in_edges |-> in_edges, raised |-> FALSE]

\* the stripped line the loop is at
NextLine == strip(lines[li + 1])

\* the loop body is entered with a line of the given kind
AtLine(kind) ==
    /\ pc = "parse"
    /\ li < Len(lines)
    /\ line_kind(NextLine, in_edges) = kind

\* the loop body leaves the parser state st
Install(st) ==
    /\ nodes' = st.nodes
    /\ edges' = st.edges
    /\ node_attributes' = st.node_attributes
    /\ edge_attributes' = st.edge_attributes
    /\ in_edges' = st.in_edges
    /\ pc' = IF st.raised THEN "raised" ELSE "parse"
    /\ li' = li + 1
    /\ UNCHANGED <<lines, sgd_map>>
    /\ UNCHANGED <<ufVars, handlerVars>>

\* if not line: continue
SkipBlankLine ==
    /\ AtLine("blank")
    /\ Install(ParserState)

\* if line.startswith('nodedef>')
ParseNodedef ==
    /\ AtLine("nodedef")
    /\ \E st \in {on_nodedef(ParserState, NextLine)} : Install(st)

\* elif line.startswith('edgedef>')
ParseEdgedef ==
    /\ AtLine("edgedef")
    /\ \E st \in {on_edgedef(ParserState, NextLine)} : Install(st)

\* elif in_edges
ParseEdgeLine ==
    /\ AtLine("edge")
    /\ \E st \in {on_edge_line(ParserState, NextLine)} : Install(st)

\* else
ParseNodeLine ==
    /\ AtLine("node")
    /\ \E st \in {on_node_line(ParserState, NextLine, sgd_map)} : Install(st)

\* return CytoscapeGraph(nodes=nodes, edges=edges)
ReturnGraph ==
    /\ pc = "parse"
    /\ li = Len(lines)
    /\ pc' = "returned"
    /\ UNCHANGED <<sgd_map, gdfVars, ufVars, handlerVars>>

NextGDF ==
    \/ SkipBlankLine
    \/ ParseNodedef
    \/ ParseEdgedef
    \/ ParseEdgeLine
    \/ ParseNodeLine
    \/ ReturnGraph

SpecGDF == InitGDF /\ [][NextGDF]_vars

-----------------------------------------------------------------------------
(* The GDF format as section 4.1 of the specification reads it: a header   *)
(* line opens a section, and a data line belongs to the section of the     *)
(* most recent header.  Stated on the input lines, not on the parser.      *)

IsHeader(l, h) == startswith(strip(l), h)

IsData(l) == strip(l) # <<>> /\ ~IsHeader(l, S_nodedef) /\ ~IsHeader(l, S_edgedef)

\* the positions of the header lines among the first k lines
HeadersUpTo(k) == {i \in 1..k : IsHeader(lines[i], S_nodedef) \/ IsHeader(lines[i], S_edgedef)}

\* the most recent header line among the first k lines (0: none yet)
LastHeaderAt(k) ==
    IF HeadersUpTo(k) = {} THEN 0
    ELSE CHOOSE i \in HeadersUpTo(k) : \A m \in HeadersUpTo(k) : m <= i

\* line i is a data line of a node section
IsNodeLine(i) ==
    /\ IsData(lines[i])
    /\ LastHeaderAt(i) # 0
    /\ IsHeader(lines[LastHeaderAt(i)], S_nodedef)

\* line i is a data line of an edge section
IsEdgeLine(i) ==
    /\ IsData(lines[i])
    /\ LastHeaderAt(i) # 0
    /\ IsHeader(lines[LastHeaderAt(i)], S_edgedef)

\* the row of line i gives a value to attribute a of its section's header
RowHas(i, a) ==
    \E k \in 1..Len(split(strip(lines[i]), ",")) :
        /\ k <= Len(split(From(strip(lines[LastHeaderAt(i)]), 9), ","))
        /\ split_ws(split(From(strip(lines[LastHeaderAt(i)]), 9), ",")[k]) # <<>>
        /\ split_ws(split(From(strip(lines[LastHeaderAt(i)]), 9), ",")[k])[1] = a

\* a valid edge line: an edge line whose row has both node1 and node2
IsValidEdgeLine(i) == IsEdgeLine(i) /\ RowHas(i, S_node1) /\ RowHas(i, S_node2)

NodeLineCount == Cardinality({i \in DOMAIN lines : IsNodeLine(i)})

ValidEdgeLineCount == Cardinality({i \in DOMAIN lines : IsValidEdgeLine(i)})

\* the ids of the nodes of the returned graph, as strings
NodeIdStrings == {str(nodes[i][S_id]) : i \in DOMAIN nodes}

\* C3: every edge of the graph parse_gdf_to_cytoscape returns has a source
\* and a target that are ids of nodes of that graph (an edge row naming an
\* absent endpoint is dropped).  Stated for the edges that carry a source
\* and a target, and comparing ids as strings, so that only a missing
\* endpoint can violate it.
C3_EdgeEndpointsAreNodes ==
    pc = "returned" =>
        \A k \in DOMAIN edges :
            (S_source \in DOMAIN edges[k] /\ S_target \in DOMAIN edges[k]) =>
                /\ str(edges[k][S_source]) \in NodeIdStrings
                /\ str(edges[k][S_target]) \in NodeIdStrings

\* C4: an edge row for which node1 or node2 is missing produces no edge:
\* every edge of the returned graph carries a source and a target.
C4_EdgesCarrySourceAndTarget ==
    pc = "returned" =>
        \A k \in DOMAIN edges : S_source \in DOMAIN edges[k] /\ S_target \in DOMAIN edges[k]

\* C5: GDF text with N node lines and M valid edge lines parses to exactly
\* N nodes and at most M edges.
C5_NodeAndEdgeCounts ==
    pc = "returned" => Len(nodes) = NodeLineCount /\ Len(edges) <= ValidEdgeLineCount

\* C6: after any prefix of the input lines the parsing mode is the one the
\* most recent header line set: edge mode after edgedef>, node mode after
\* nodedef>, also when a nodedef> line follows an edgedef> line.
C6_ModeFollowsLastHeader ==
    (pc \in {"parse", "returned"} /\ LastHeaderAt(li) # 0) =>
        (in_edges <=> IsHeader(lines[LastHeaderAt(li)], S_edgedef))

\* C7: every node of the returned graph has an id that is a non-empty
\* string.
C7_NodeIdIsNonEmptyString ==
    pc = "returned" =>
        \A k \in DOMAIN nodes : is_str(nodes[k][S_id]) /\ nodes[k][S_id].v # <<>>

-----------------------------------------------------------------------------
(* Python str ordering and list helpers used by the request handlers *)

\* the printable ASCII characters in code point order, from chr(32); the
\* entry at chr(96) is spelled out, no string handled here holds it
Ascii ==
    <<" ", "!", "\"", "#", "$", "%", "&", "'", "(", ")", "*", "+", ",", "-", ".", "/",
      "0", "1", "2", "3", "4", "5", "6", "7", "8", "9", ":", ";", "<", "=", ">", "?",
      "@", "A", "B", "C", "D", "E", "F", "G", "H", "I", "J", "K", "L", "M", "N", "O",
      "P", "Q", "R", "S", "T", "U", "V", "W", "X", "Y", "Z", "[", "\\", "]", "^", "_",
      "grave", "a", "b", "c", "d", "e", "f", "g", "h", "i", "j", "k", "l", "m", "n", "o",
      "p", "q", "r", "s", "t", "u", "v", "w", "x", "y", "z", "{", "|", "}", "~">>

\* ord(c)
ord(c) == 31 + (CHOOSE i \in DOMAIN Ascii : Ascii[i] = c)

RECURSIVE str_le(_, _)
\* a <= b for two str values: lexicographic by code point
str_le(a, b) ==
    IF a = <<>> THEN TRUE
    ELSE IF b = <<>> THEN FALSE
    ELSE IF a[1] = b[1] THEN str_le(Tail(a), Tail(b))
    ELSE ord(a[1]) < ord(b[1])

RECURSIVE sorted(_)
\* sorted(S) for a set (or the keys of a dict) of str values
sorted(S) ==
    IF S = {} THEN <<>>
    ELSE LET m == CHOOSE x \in S : \A y \in S : str_le(x, y)
         IN  <<m>> \o sorted(S \ {m})

RECURSIVE filter_in(_, _)
\* [p for p in xs if p in S]
filter_in(xs, S) ==
    IF xs = <<>> THEN <<>>
    ELSE IF xs[1] \in S THEN <<xs[1]>> \o filter_in(Tail(xs), S)
    ELSE filter_in(Tail(xs), S)

\* xs[start:end] for 0 <= start <= end
slice(xs, start, end) ==
    IF start >= Len(xs) THEN <<>>
    ELSE SubSeq(xs, start + 1, IF end < Len(xs) THEN end ELSE Len(xs))

\* names.index(x) counted from 1, or 0 (None) when x is not in names
index_or_none(names, x) == IF x \in Range(names) THEN FirstIndex(names, x) ELSE 0

-----------------------------------------------------------------------------
(* proteins.py: reading GDF files *)

\* '.gdf'
S_gdf == <<".", "g", "d", "f">>

RECURSIVE strip_quote_chars(_)
\* value.strip("'")
strip_quote_chars(s) ==
    IF s = <<>> THEN s
    ELSE IF s[1] = "'" THEN strip_quote_chars(Tail(s))
    ELSE IF s[Len(s)] = "'" THEN strip_quote_chars(SubSeq(s, 1, Len(s) - 1))
    ELSE s

\* _strip_quotes(value)
_strip_quotes(value) ==
    IF \/ startswith(value, <<"'">>) /\ endswith(value, <<"'">>)
       \/ startswith(value, <<"\"">>) /\ endswith(value, <<"\"">>)
    THEN SubSeq(value, 2, Len(value) - 1)
    ELSE value

RECURSIVE csv_scan(_, _, _, _, _)
\* csv.reader over one line with delimiter ',', quotechar "'",
\* skipinitialspace, doublequote, not strict: the reader's state machine
\* from character i on, with the fields saved in row and the open field
csv_scan(s, i, state, field, row) ==
    IF i > Len(s) THEN Append(row, field)
    ELSE IF state = "START_FIELD" THEN
        IF s[i] = "'" THEN csv_scan(s, i + 1, "IN_QUOTED_FIELD", field, row)
        ELSE IF s[i] = " " THEN csv_scan(s, i + 1, "START_FIELD", field, row)
        ELSE IF s[i] = "," THEN csv_scan(s, i + 1, "START_FIELD", <<>>, Append(row, field))
        ELSE csv_scan(s, i + 1, "IN_FIELD", Append(field, s[i]), row)
    ELSE IF state = "IN_FIELD" THEN
        IF s[i] = "," THEN csv_scan(s, i + 1, "START_FIELD", <<>>, Append(row, field))
        ELSE csv_scan(s, i + 1, "IN_FIELD", Append(field, s[i]), row)
    ELSE IF state = "IN_QUOTED_FIELD" THEN
        IF s[i] = "'" THEN csv_scan(s, i + 1, "QUOTE_IN_QUOTED_FIELD", field, row)
        ELSE csv_scan(s, i + 1, "IN_QUOTED_FIELD", Append(field, s[i]), row)
    ELSE
        IF s[i] = "'" THEN csv_scan(s, i + 1, "IN_QUOTED_FIELD", Append(field, s[i]), row)
        ELSE IF s[i] = "," THEN csv_scan(s, i + 1, "START_FIELD", <<>>, Append(row, field))
        ELSE csv_scan(s, i + 1, "IN_FIELD", Append(field, s[i]), row)

\* the one row csv.reader([line], delimiter=",", quotechar="'",
\* skipinitialspace=True) yields for a non-empty line
csv_reader(line) == csv_scan(line, 1, "START_FIELD", <<>>, <<>>)

\* first = attr.split()[0]; first = first.split(":")[0]
attr_name(part) == split(split_ws(part)[1], ":")[1]

\* the attribute names of a header: [ok, attrs]; ok = FALSE is the
\* IndexError of attr.split()[0] for an empty attribute
attr_names(header) ==
    IF \E i \in DOMAIN split(header, ",") : split_ws(split(header, ",")[i]) = <<>>
    THEN [ok |-> FALSE, attrs |-> <<>>]
    ELSE [ok |-> TRUE, attrs |-> [i \in DOMAIN split(header, ",") |-> attr_name(split(header, ",")[i])]]

\* _strip_quotes(row[index].strip()), index counted from 1
cell(row, index) == _strip_quotes(strip(row[index]))

\* [sgd_map.get(t.upper(), t) for t in base] if name_mode == "gene" else base
mapped_tokens(base, name_mode, map) ==
    IF name_mode = "gene" THEN [i \in DOMAIN base |-> Get(map, upper(base[i]), base[i])]
    ELSE base

\* the tokens of a label value, as the list the code iterates
label_tokens(label_val, name_mode, map) == mapped_tokens(split_ws(label_val), name_mode, map)

(* _collect_proteins_from_gdf *)

\* label_index of _collect_proteins_from_gdf: label, else name, else the
\* first column
collect_label_index(names) ==
    IF S_label \in Range(names) THEN FirstIndex(names, S_label)
    ELSE IF S_name \in Range(names) THEN FirstIndex(names, S_name)
    ELSE IF names # <<>> THEN 1 ELSE 0

\* the nodedef> branch, h the parsed header
collect_header(st, h) ==
    IF ~h.ok THEN [st EXCEPT !.raised = TRUE]
    ELSE [st EXCEPT !.in_nodes = TRUE,
                    !.label_index = collect_label_index(h.attrs),
                    !.type_index = index_or_none(h.attrs, S_type)]

\* type_val of a row; the empty string stands for None as well, the code
\* only tests it for truth
collect_type_val(st, row) ==
    IF st.type_index # 0 /\ st.type_index <= Len(row) THEN cell(row, st.type_index) ELSE <<>>

\* the loop "for token_clean in mapped" over a dict d of token -> types
add_tokens(d, tokens, type_val) ==
    [t \in (DOMAIN d) \cup (Range(tokens) \ {<<>>}) |->
        (IF t \in DOMAIN d THEN d[t] ELSE {})
        \cup (IF t \in Range(tokens) /\ type_val # <<>> THEN {type_val} ELSE {})]

\* if label_val: ...
collect_label(st, label_val, type_val, name_mode, map) ==
    IF label_val = <<>> THEN st
    ELSE [st EXCEPT !.token_to_types = add_tokens(@, label_tokens(label_val, name_mode, map), type_val)]

\* the body of "for row in csv.reader(...)"
collect_row(st, row, name_mode, map) ==
    IF st.label_index > Len(row) THEN st
    ELSE collect_label(st, cell(row, st.label_index), collect_type_val(st, row), name_mode, map)

\* the loop body for one stripped line
collect_line(st, line, name_mode, map) ==
    IF line = <<>> THEN st
    ELSE IF startswith(line, S_nodedef) THEN collect_header(st, attr_names(From(line, 9)))
    ELSE IF startswith(line, S_edgedef) THEN [st EXCEPT !.in_nodes = FALSE]
    ELSE IF st.in_nodes /\ st.label_index # 0 THEN collect_row(st, csv_reader(line), name_mode, map)
    ELSE st

RECURSIVE collect_lines(_, _, _, _)
collect_lines(st, ls, name_mode, map) ==
    IF ls = <<>> \/ st.raised THEN st
    ELSE collect_lines(collect_line(st, strip(ls[1]), name_mode, map), Tail(ls), name_mode, map)

\* _collect_proteins_from_gdf over the lines ls of the file:
\* [token_to_types, raised]
_collect_proteins_from_gdf(ls, name_mode, map) ==
    collect_lines([in_nodes |-> FALSE, label_index |-> 0, type_index |-> 0,
                   token_to_types |-> EmptyDict, raised |-> FALSE], ls, name_mode, map)

(* _parse_nodes_and_edges, and the copy of it that                          *)
(* get_component_proteins_by_node (networks.py) runs on the reference file; *)
(* the copy differs in how it reads a cell and is marked by st.inline       *)

\* _strip_quotes(row[index].strip()); in the copy row[index].strip().strip("'")
parse_cell(st, row, index) ==
    IF st.inline THEN strip_quote_chars(strip(row[index])) ELSE cell(row, index)

\* label_index of _parse_nodes_and_edges: label, else name, else None
parse_label_index(names) ==
    IF S_label \in Range(names) THEN FirstIndex(names, S_label)
    ELSE index_or_none(names, S_name)

\* id_index: name, else id, else the first column
parse_id_index(names) ==
    IF S_name \in Range(names) THEN FirstIndex(names, S_name)
    ELSE IF S_id \in Range(names) THEN FirstIndex(names, S_id)
    ELSE 1

\* the nodedef> branch, h the parsed header
parse_nodedef(st, h) ==
    IF ~h.ok THEN [st EXCEPT !.raised = TRUE]
    ELSE [st EXCEPT !.in_nodes = TRUE, !.in_edges = FALSE,
                    !.node_attr_names = h.attrs,
                    !.label_index = parse_label_index(h.attrs),
                    !.id_index = parse_id_index(h.attrs)]

\* the edgedef> branch, h the parsed header
parse_edgedef(st, h) ==
    IF ~h.ok THEN [st EXCEPT !.raised = TRUE]
    ELSE [st EXCEPT !.in_nodes = FALSE, !.in_edges = TRUE,
                    !.edge_attr_names = h.attrs,
                    !.node1_index = index_or_none(h.attrs, S_node1),
                    !.node2_index = index_or_none(h.attrs, S_node2)]

\* the node row with a label column
parse_labelled(st, node_id, label_val, name_mode, map) ==
    [st EXCEPT !.node_ids = Append(@, node_id),
               !.node_to_label = Put(@, node_id, label_val),
               !.node_to_tokens = Put(@, node_id, Range(label_tokens(label_val, name_mode, map)))]

\* the node row whose id is node_id
parse_node_id(st, row, node_id, name_mode, map) ==
    IF st.label_index # 0 /\ st.label_index <= Len(row)
    THEN parse_labelled(st, node_id, parse_cell(st, row, st.label_index), name_mode, map)
    ELSE [st EXCEPT !.node_ids = Append(@, node_id),
                    !.node_to_tokens = Put(@, node_id, {})]

\* the body of "for row in csv.reader(...)" of a node line
parse_node_row(st, row, name_mode, map) ==
    IF st.id_index > Len(row) THEN st
    ELSE parse_node_id(st, row, parse_cell(st, row, st.id_index), name_mode, map)

\* if n1 and n2: edges.append((str(n1), str(n2)))
parse_edge(st, n1, n2) ==
    IF n1 # <<>> /\ n2 # <<>> THEN [st EXCEPT !.edges = Append(@, <<n1, n2>>)] ELSE st

\* the body of "for row in csv.reader(...)" of an edge line
parse_edge_row(st, row) ==
    IF st.node1_index <= Len(row) /\ st.node2_index <= Len(row)
    THEN parse_edge(st, parse_cell(st, row, st.node1_index), parse_cell(st, row, st.node2_index))
    ELSE st

\* the loop body for one stripped line
parse_line(st, line, name_mode, map) ==
    IF line = <<>> THEN st
    ELSE IF startswith(line, S_nodedef) THEN parse_nodedef(st, attr_names(From(line, 9)))
    ELSE IF startswith(line, S_edgedef) THEN parse_edgedef(st, attr_names(From(line, 9)))
    ELSE IF st.in_nodes /\ st.node_attr_names # <<>> THEN parse_node_row(st, csv_reader(line), name_mode, map)
    ELSE IF st.in_edges /\ st.edge_attr_names # <<>> /\ st.node1_index # 0 /\ st.node2_index # 0
         THEN parse_edge_row(st, csv_reader(line))
    ELSE st

RECURSIVE parse_lines(_, _, _, _)
parse_lines(st, ls, name_mode, map) ==
    IF ls = <<>> \/ st.raised THEN st
    ELSE parse_lines(parse_line(st, strip(ls[1]), name_mode, map), Tail(ls), name_mode, map)

\* the locals before the first line
parse_start(inline) ==
    [in_nodes |-> FALSE, in_edges |-> FALSE,
     node_attr_names |-> <<>>, edge_attr_names |-> <<>>,
     label_index |-> 0, id_index |-> 0, node1_index |-> 0, node2_index |-> 0,
     node_ids |-> <<>>, edges |-> <<>>,
     node_to_tokens |-> EmptyDict, node_to_label |-> EmptyDict,
     raised |-> FALSE, inline |-> inline]

\* _parse_nodes_and_edges over the lines ls of the file: node_ids, edges,
\* node_to_tokens and node_to_label are the returned tuple
_parse_nodes_and_edges(ls, name_mode, map) == parse_lines(parse_start(FALSE), ls, name_mode, map)

\* the copy in get_component_proteins_by_node: node_ids_f, edges_f and
\* node_to_tokens_f are node_ids, edges and node_to_tokens
parse_reference_file(ls, name_mode, map) == parse_lines(parse_start(TRUE), ls, name_mode, map)

-----------------------------------------------------------------------------
(* The data directory of the handler specifications *)

\* a.gdf of network yeast: nodedef>name VARCHAR,label VARCHAR,type VARCHAR | 1,'Y1 y2',prediction | 2,Y1,reference | 3,'B a',prediction | edgedef>node1,node2 | 1,2
File_a ==
    <<<<"n", "o", "d", "e", "d", "e", "f", ">", "n", "a", "m", "e", " ", "V", "A", "R", "C", "H", "A", "R", ",", "l", "a", "b", "e", "l", " ", "V", "A", "R", "C", "H", "A", "R", ",", "t", "y", "p", "e", " ", "V", "A", "R", "C", "H", "A", "R">>,
      <<"1", ",", "'", "Y", "1", " ", "y", "2", "'", ",", "p", "r", "e", "d", "i", "c", "t", "i", "o", "n">>,
      <<"2", ",", "Y", "1", ",", "r", "e", "f", "e", "r", "e", "n", "c", "e">>,
      <<"3", ",", "'", "B", " ", "a", "'", ",", "p", "r", "e", "d", "i", "c", "t", "i", "o", "n">>,
      <<"e", "d", "g", "e", "d", "e", "f", ">", "n", "o", "d", "e", "1", ",", "n", "o", "d", "e", "2">>,
      <<"1", ",", "2">>>>

\* b.gdf of network yeast: nodedef>name VARCHAR,label VARCHAR | 1,'Y1 y2' | 2,C | edgedef>node1,node2 | 1,2
File_b ==
    <<<<"n", "o", "d", "e", "d", "e", "f", ">", "n", "a", "m", "e", " ", "V", "A", "R", "C", "H", "A", "R", ",", "l", "a", "b", "e", "l", " ", "V", "A", "R", "C", "H", "A", "R">>,
      <<"1", ",", "'", "Y", "1", " ", "y", "2", "'">>,
      <<"2", ",", "C">>,
      <<"e", "d", "g", "e", "d", "e", "f", ">", "n", "o", "d", "e", "1", ",", "n", "o", "d", "e", "2">>,
      <<"1", ",", "2">>>>

\* a file whose node header has an empty attribute: nodedef>name,,label | 1,,Y1
File_bad ==
    <<<<"n", "o", "d", "e", "d", "e", "f", ">", "n", "a", "m", "e", ",", ",", "l", "a", "b", "e", "l">>,
      <<"1", ",", ",", "Y", "1">>>>

\* a file with one node: nodedef>name VARCHAR,label VARCHAR | 1,a
File_c ==
    <<<<"n", "o", "d", "e", "d", "e", "f", ">", "n", "a", "m", "e", " ", "V", "A", "R", "C", "H", "A", "R", ",", "l", "a", "b", "e", "l", " ", "V", "A", "R", "C", "H", "A", "R">>,
      <<"1", ",", "a">>>>

\* a.gdf of network twins, two node lines share the id 1: nodedef>name VARCHAR,label VARCHAR | 1,'Y1 y2' | 1,B
File_twins ==
    <<<<"n", "o", "d", "e", "d", "e", "f", ">", "n", "a", "m", "e", " ", "V", "A", "R", "C", "H", "A", "R", ",", "l", "a", "b", "e", "l", " ", "V", "A", "R", "C", "H", "A", "R">>,
      <<"1", ",", "'", "Y", "1", " ", "y", "2", "'">>,
      <<"1", ",", "B">>>>

\* a.gdf of network pairs, two components, a repeated edge, an edge to a
\* missing node and a loop: nodedef>name VARCHAR,label VARCHAR | 1,Y1 | 2,'Y1 y2' | 3,B | 4,B | edgedef>node1,node2 | 1,2 | 2,1 | 3,4 | 4,9 | 3,3
File_pairs ==
    <<<<"n", "o", "d", "e", "d", "e", "f", ">", "n", "a", "m", "e", " ", "V", "A", "R", "C", "H", "A", "R", ",", "l", "a", "b", "e", "l", " ", "V", "A", "R", "C", "H", "A", "R">>,
      <<"1", ",", "Y", "1">>,
      <<"2", ",", "'", "Y", "1", " ", "y", "2", "'">>,
      <<"3", ",", "B">>,
      <<"4", ",", "B">>,
      <<"e", "d", "g", "e", "d", "e", "f", ">", "n", "o", "d", "e", "1", ",", "n", "o", "d", "e", "2">>,
      <<"1", ",", "2">>,
      <<"2", ",", "1">>,
      <<"3", ",", "4">>,
      <<"4", ",", "9">>,
      <<"3", ",", "3">>>>

\* file names
N_a_gdf == <<"a", ".", "g", "d", "f">>

N_b_gdf == <<"b", ".", "g", "d", "f">>

N_notes_txt == <<"n", "o", "t", "e", "s", ".", "t", "x", "t">>

\* the entries of the data directory: a network directory holds files, one
\* entry is a plain file
DataDir ==
    [yeast  |-> [isdir |-> TRUE, files |-> (N_b_gdf :> File_b) @@ (N_a_gdf :> File_a) @@ (N_notes_txt :> File_c)],
     broken |-> [isdir |-> TRUE, files |-> (N_a_gdf :> File_bad) @@ (N_b_gdf :> File_c)],
     empty  |-> [isdir |-> TRUE, files |-> (N_notes_txt :> File_c)],
     twins  |-> [isdir |-> TRUE, files |-> (N_a_gdf :> File_twins)],
     pairs  |-> [isdir |-> TRUE, files |-> (N_a_gdf :> File_pairs)],
     readme |-> [isdir |-> FALSE, files |-> <<>>]]

\* the network names a request may carry: the entries and a missing one
NetworkNames == DOMAIN DataDir \cup {"missing"}

-----------------------------------------------------------------------------
(* proteins.py: get_proteins *)

\* HTTPException(status_code=..., detail=...)
HTTPException(status_code, detail) ==
    [type |-> "HTTPException", status_code |-> status_code, detail |-> detail]

\* the response the framework sends for an HTTPException that leaves a handler
error_response(exc) == [status |-> exc.status_code, detail |-> exc.detail]

\* a handler whose except clause turns every exception into a 500
get_proteins_except_all(exc) ==
    error_response(HTTPException(500, "Error aggregating proteins"))

\* except HTTPException: raise
\* except Exception as e: raise HTTPException(status_code=500, ...)
get_proteins_except(exc) ==
    IF exc.type = "HTTPException" THEN error_response(exc)
    ELSE error_response(HTTPException(500, "Error aggregating proteins"))

\* _read_network_dir: [raised, exc] or [raised, files]
_read_network_dir(dir, network_name) ==
    IF network_name \notin DOMAIN dir
    THEN [raised |-> TRUE, exc |-> HTTPException(404, "Network not found")]
    ELSE IF ~dir[network_name].isdir
    THEN [raised |-> TRUE, exc |-> HTTPException(400, "not a directory")]
    ELSE [raised |-> FALSE, files |-> dir[network_name].files]

\* _iter_gdf_files: the sorted names of the .gdf files of a directory
_iter_gdf_files(files) == sorted({f \in DOMAIN files : endswith(f, S_gdf)})

\* token_types_map of one file; a file that fails to parse counts as {}
token_types_map(ls, name_mode, map) ==
    IF _collect_proteins_from_gdf(ls, name_mode, map).raised THEN EmptyDict
    ELSE _collect_proteins_from_gdf(ls, name_mode, map).token_to_types

\* protein_to_files after "for token, types in token_types_map.items()"
merge_files(p2f, ttm, filename) ==
    [t \in (DOMAIN p2f) \cup (DOMAIN ttm) |->
        (IF t \in DOMAIN p2f THEN p2f[t] ELSE {}) \cup (IF t \in DOMAIN ttm THEN {filename} ELSE {})]

\* protein_to_types after "for token, types in token_types_map.items()"
merge_types(p2t, ttm) ==
    [t \in (DOMAIN p2t) \cup (DOMAIN ttm) |->
        (IF t \in DOMAIN p2t THEN p2t[t] ELSE {}) \cup (IF t \in DOMAIN ttm THEN ttm[t] ELSE {})]

\* the set of the whitespace-separated terms of a query value
term_set(s) == Range(split_ws(s))

\* comp_to_tokens[cid]: the tokens of the nodes of component cid
comp_tokens(node_to_tokens, n2c, cid) ==
    UNION {node_to_tokens[n] : n \in {m \in DOMAIN node_to_tokens : m \in DOMAIN n2c /\ n2c[m] = cid}}

\* the tokens one parsed file adds to allowed_tokens: those of the
\* components that contain all selected tokens
allowed_in(r, n2c, selected_set) ==
    UNION {comp_tokens(r.node_to_tokens, n2c, cid) :
            cid \in {c \in Range(n2c) : selected_set \subseteq comp_tokens(r.node_to_tokens, n2c, c)}}

\* one iteration of "for filename in gdf_files" of the selected filter; a
\* file that fails to parse is skipped
file_allowed(r, selected_set) ==
    IF r.raised THEN {}
    ELSE allowed_in(r, _compute_components(r.node_ids, r.edges).node_to_comp, selected_set)

\* allowed_tokens after the loop over the files
components_allowed(files, names, selected_set, name_mode, map) ==
    UNION {file_allowed(_parse_nodes_and_edges(files[names[i]], name_mode, map), selected_set) :
            i \in DOMAIN names}

\* if not allowed_tokens: allowed_tokens = set(selected_set)
allowed_or_selected(allowed, selected_set) == IF allowed = {} THEN selected_set ELSE allowed

\* allowed_tokens of the selected filter
allowed_tokens(files, names, selected_set, name_mode, map) ==
    allowed_or_selected(components_allowed(files, names, selected_set, name_mode, map), selected_set)

\* a pagination that counts pages from 0
page_start_from_zero(page, page_size) == page * page_size

\* start = (page - 1) * size
page_start(page, page_size) == (page - 1) * page_size

\* the items of the page: one ProteinItem per protein of paged
page_items(paged, p2f, p2t) ==
    [i \in DOMAIN paged |->
        [protein |-> paged[i],
         files   |-> sorted(Get(p2f, paged[i], {})),
         types   |-> sorted(Get(p2t, paged[i], {}))]]

-----------------------------------------------------------------------------
(* The proteins specification: one request to get_proteins, one step per   *)
(* stage of the handler.  An absent query parameter and an empty one are   *)
(* both the empty string: the handler only tests them for truth.           *)

\* largest page number and page size requested
MaxPage == 3

MaxPageSize == 3

\* values of q and selected: absent, 'Y1', 'Y1 B', 'zz y2', ' '
QueryValues ==
    {<<>>, <<"Y", "1">>, <<"Y", "1", " ", "B">>, <<"z", "z", " ", "y", "2">>, <<" ">>}

Requests ==
    [network_name : NetworkNames, page : 1..MaxPage, size : 1..MaxPageSize,
     q : QueryValues, selected : QueryValues, name_mode : {"systematic", "gene"}]

InitProteins ==
    /\ data_dir = DataDir
    /\ request \in Requests
    /\ sgd_map \in SgdMaps
    /\ response = <<>>
    /\ ProtIdle
    /\ by_node = <<>>
    /\ OtherIdle
    /\ pc = "get_proteins"
    /\ UFIdle
    /\ GdfIdle

\* an exception leaves the try block of the handler
Raise(exc) ==
    /\ response' = get_proteins_except(exc)
    /\ pc' = "done"
    /\ UNCHANGED <<data_dir, request, sgd_map, protVars, by_node, notHandlers>>

\* the files of the requested network
NetworkFiles == data_dir[request.network_name].files

\* dir_path = _read_network_dir(network_name) raises
NetworkDirFails ==
    /\ pc = "get_proteins"
    /\ _read_network_dir(data_dir, request.network_name).raised
    /\ Raise(_read_network_dir(data_dir, request.network_name).exc)

\* gdf_files = _iter_gdf_files(dir_path)
ListGdfFiles ==
    /\ pc = "get_proteins"
    /\ ~_read_network_dir(data_dir, request.network_name).raised
    /\ gdf_files' = _iter_gdf_files(_read_network_dir(data_dir, request.network_name).files)
    /\ pc' = "collect"
    /\ UNCHANGED <<fi, protein_to_files, protein_to_types, all_proteins, total>>
    /\ UNCHANGED <<data_dir, request, response, sgd_map, by_node, notHandlers>>

\* the loop body of "for filename in gdf_files" with token_types_map ttm
Collected(ttm) ==
    /\ protein_to_files' = merge_files(protein_to_files, ttm, gdf_files[fi + 1])
    /\ protein_to_types' = merge_types(protein_to_types, ttm)
    /\ fi' = fi + 1
    /\ UNCHANGED <<pc, gdf_files, all_proteins, total>>
    /\ UNCHANGED <<data_dir, request, response, sgd_map, by_node, notHandlers>>

\* one iteration of "for filename in gdf_files"
CollectFile ==
    /\ pc = "collect"
    /\ fi < Len(gdf_files)
    /\ \E ttm \in {token_types_map(NetworkFiles[gdf_files[fi + 1]], request.name_mode, sgd_map)} :
            Collected(ttm)

\* all_proteins = sorted(protein_to_files.keys())
SortProteins ==
    /\ pc = "collect"
    /\ fi = Len(gdf_files)
    /\ all_proteins' = sorted(DOMAIN protein_to_files)
    /\ pc' = "selected"
    /\ UNCHANGED <<gdf_files, fi, protein_to_files, protein_to_types, total>>
    /\ UNCHANGED <<data_dir, request, response, sgd_map, by_node, notHandlers>>

\* a filter stage leaves the list ps and moves to the next stage
Filtered(ps, next) ==
    /\ all_proteins' = ps
    /\ pc' = next
    /\ UNCHANGED <<gdf_files, fi, protein_to_files, protein_to_types>>
    /\ UNCHANGED <<data_dir, request, response, sgd_map, by_node, notHandlers>>

\* "if selected" with no selected term
NoSelected ==
    /\ pc = "selected"
    /\ term_set(request.selected) = {}
    /\ Filtered(all_proteins, "q")
    /\ UNCHANGED total

\* "if selected" with selected terms: the component-based filter
FilterSelected ==
    /\ pc = "selected"
    /\ term_set(request.selected) # {}
    /\ \E allowed \in {allowed_tokens(NetworkFiles, gdf_files, term_set(request.selected),
                                      request.name_mode, sgd_map)} :
            Filtered(filter_in(all_proteins, allowed), "q")
    /\ UNCHANGED total

\* "if q" and total = len(all_proteins)
FilterQ ==
    /\ pc = "q"
    /\ \E ps \in {IF term_set(request.q) # {} THEN filter_in(all_proteins, term_set(request.q))
                  ELSE all_proteins} :
            /\ Filtered(ps, "page")
            /\ total' = Len(ps)

\* if start >= total and total != 0: raise HTTPException(400, ...)
PageOutOfRange ==
    /\ pc = "page"
    /\ page_start(request.page, request.size) >= total /\ total # 0
    /\ Raise(HTTPException(400, "Page out of range"))

\* return PagedProteins(items=items, total=total, page=page, size=size)
ReturnPage ==
    /\ pc = "page"
    /\ ~(page_start(request.page, request.size) >= total /\ total # 0)
    /\ response' =
        [status |-> 200,
         body |-> [items |-> page_items(slice(all_proteins, page_start(request.page, request.size),
                                              page_start(request.page, request.size) + request.size),
                                        protein_to_files, protein_to_types),
                   total |-> total, page |-> request.page, size |-> request.size]]
    /\ pc' = "done"
    /\ UNCHANGED <<data_dir, request, sgd_map, protVars, by_node, notHandlers>>

NextProteins ==
    \/ NetworkDirFails
    \/ ListGdfFiles
    \/ CollectFile
    \/ SortProteins
    \/ NoSelected
    \/ FilterSelected
    \/ FilterQ
    \/ PageOutOfRange
    \/ ReturnPage

SpecProteins == InitProteins /\ [][NextProteins]_vars

-----------------------------------------------------------------------------
(* Claims on get_proteins *)

\* the request passed _read_network_dir: the handler reached its paging
ReachedPaging ==
    /\ pc = "done"
    /\ request.network_name \in DOMAIN data_dir
    /\ data_dir[request.network_name].isdir

\* the proteins of the network that pass the selected and the q filter
RemainingProteins ==
    {t \in DOMAIN protein_to_files :
        /\ term_set(request.selected) # {} =>
                t \in allowed_tokens(NetworkFiles, gdf_files, term_set(request.selected),
                                     request.name_mode, sgd_map)
        /\ term_set(request.q) # {} => t \in term_set(request.q)}

\* the list xs is sorted by str order and holds no value twice
StrictlySorted(xs) ==
    \A i \in 1..(Len(xs) - 1) : xs[i] # xs[i + 1] /\ str_le(xs[i], xs[i + 1])

\* the positions first..last of the list xs, counted from 1
Positions(xs, first, last) == [i \in 1..(IF last >= first THEN last - first + 1 ELSE 0) |-> xs[first + i - 1]]

\* the smaller of two numbers
Min(a, b) == IF a <= b THEN a ELSE b

\* C9: a successful get_proteins with page p and size s returns, of the
\* sorted duplicate-free list of the proteins that remain after the
\* selected and q filters, exactly the items at positions (p-1)*s+1 through
\* min(p*s, total), and reports total as the length of that list.
C9_PageIsSliceOfFiltered ==
    (pc = "done" /\ response.status = 200) =>
        /\ StrictlySorted(all_proteins)
        /\ Range(all_proteins) = RemainingProteins
        /\ response.body.total = Len(all_proteins)
        /\ [i \in DOMAIN response.body.items |-> response.body.items[i].protein]
            = Positions(all_proteins, (request.page - 1) * request.size + 1,
                        Min(request.page * request.size, response.body.total))

\* a page after the first one that is the last, partly filled page
C9_Witness ==
    /\ pc = "done"
    /\ response.status = 200
    /\ request.page >= 2
    /\ request.size >= 2
    /\ response.body.items # <<>>
    /\ Len(response.body.items) < request.size
    /\ Len(all_proteins) < Cardinality(DOMAIN protein_to_files)

\* the caller received 400 'Page out of range'
IsPageOutOfRange == response.status = 400 /\ response.detail = "Page out of range"

\* C10: get_proteins answers 400 'Page out of range' exactly when
\* (page-1)*size >= total and total > 0; with total = 0 every page is an
\* empty item list without error; the 400 reaches the caller as 400.
C10_OutOfRangeExactly ==
    ReachedPaging =>
        /\ IsPageOutOfRange <=> ((request.page - 1) * request.size >= total /\ total > 0)
        /\ ~IsPageOutOfRange => response.status = 200
        /\ total = 0 => (response.status = 200 /\ response.body.items = <<>>)

\* a page beyond the end of a non-empty result was answered with the 400
C10_Witness ==
    /\ ReachedPaging
    /\ IsPageOutOfRange
    /\ total > 0
    /\ (request.page - 1) * request.size >= total

\* every page of an empty result is an empty list
C10_EmptyResultReached ==
    ReachedPaging /\ total = 0 /\ request.page > 1 /\ response.status = 200

-----------------------------------------------------------------------------
(* Claims on the selected filter of get_proteins.  The components of a    *)
(* file are read off its node lines: every node line is a node of the     *)
(* component of its id and carries the tokens of its own label.           *)

\* _parse_nodes_and_edges after the first k lines of the file
ParsedUpTo(ls, k, name_mode, map) == _parse_nodes_and_edges(SubSeq(ls, 1, k), name_mode, map)

\* the lines of the file that add a node
NodeRows(ls, name_mode, map) ==
    {k \in 1..Len(ls) : Len(ParsedUpTo(ls, k, name_mode, map).node_ids)
                            > Len(ParsedUpTo(ls, k - 1, name_mode, map).node_ids)}

\* the id of the node that line k adds
RowId(ls, k, name_mode, map) ==
    ParsedUpTo(ls, k, name_mode, map).node_ids[Len(ParsedUpTo(ls, k, name_mode, map).node_ids)]

\* the tokens of the label of the node that line k adds
RowTokens(ls, k, name_mode, map) ==
    Get(ParsedUpTo(ls, k, name_mode, map).node_to_tokens, RowId(ls, k, name_mode, map), {})

\* the component ids of the nodes of the file
FileNodeToComp(ls, name_mode, map) ==
    _compute_components(_parse_nodes_and_edges(ls, name_mode, map).node_ids,
                        _parse_nodes_and_edges(ls, name_mode, map).edges).node_to_comp

\* the tokens of the node lines of component cid
ComponentTokenSet(ls, cid, name_mode, map) ==
    UNION {RowTokens(ls, k, name_mode, map) :
            k \in {r \in NodeRows(ls, name_mode, map) :
                    FileNodeToComp(ls, name_mode, map)[RowId(ls, r, name_mode, map)] = cid}}

\* the token sets of the components of a file; a file that fails to parse
\* has none
FileTokenSets(ls, name_mode, map) ==
    IF _parse_nodes_and_edges(ls, name_mode, map).raised THEN {}
    ELSE {ComponentTokenSet(ls, cid, name_mode, map) : cid \in Range(FileNodeToComp(ls, name_mode, map))}

\* the token sets of the components of the files of the requested network
NetworkTokenSets ==
    UNION {FileTokenSets(NetworkFiles[gdf_files[i]], request.name_mode, sgd_map) : i \in DOMAIN gdf_files}

\* those that contain every selected token
MatchingTokenSets == {T \in NetworkTokenSets : term_set(request.selected) \subseteq T}

\* the selected filter has run on a request with selected tokens
SelectedFilterDone == pc = "q" /\ term_set(request.selected) # {}

\* C11: when tokens are selected and no component of any file of the
\* network contains all of them, the result before the q filter and the
\* paging is exactly the set of selected tokens, hence never empty
C11_FallbackIsSelectedTokens ==
    (SelectedFilterDone /\ MatchingTokenSets = {})
        => Range(all_proteins) = term_set(request.selected)

\* the fallback ran and every selected token is a protein of the network
C11_FallbackKeepsKnownTokens ==
    /\ SelectedFilterDone /\ MatchingTokenSets = {}
    /\ Range(all_proteins) = term_set(request.selected)

\* the fallback ran and left an empty result
C11_FallbackEmpty ==
    SelectedFilterDone /\ MatchingTokenSets = {} /\ all_proteins = <<>>

\* C12: when tokens are selected and some component of some file contains
\* all of them, a protein is in the result exactly when it is a token of
\* a component, of some file of the network, that contains every selected
\* token
C12_ResultIsMatchingComponents ==
    (SelectedFilterDone /\ MatchingTokenSets # {})
        => Range(all_proteins) = UNION MatchingTokenSets

\* a component matched and the result holds its tokens
C12_Witness ==
    /\ SelectedFilterDone /\ MatchingTokenSets # {}
    /\ Range(all_proteins) = UNION MatchingTokenSets
    /\ Cardinality(Range(all_proteins)) > Cardinality(term_set(request.selected))

-----------------------------------------------------------------------------
(* proteins.py: get_components_membership *)

\* except HTTPException: raise
\* except Exception as e: raise HTTPException(status_code=500, ...)
membership_except(exc) ==
    IF exc.type = "HTTPException" THEN error_response(exc)
    ELSE error_response(HTTPException(500, "Error computing components"))

\* body.name_mode or "systematic"
membership_name_mode(body) == IF body.name_mode = "None" THEN "systematic" ELSE body.name_mode

\* comp_to_tokens after "for node_id, tokens in node_to_tokens.items()"
comp_to_tokens(node_to_tokens, n2c) ==
    [cid \in {n2c[n] : n \in DOMAIN node_to_tokens \cap DOMAIN n2c} |->
        comp_tokens(node_to_tokens, n2c, cid)]

\* a count that credits an edge to the component of its first endpoint
count_edge_of_source(counts, n2c, e) ==
    IF e[1] \in DOMAIN n2c
    THEN Put(counts, n2c[e[1]], Get(counts, n2c[e[1]], 0) + 1)
    ELSE counts

\* the body of "for a, b in edges": if ca is not None and cb is not None
\* and ca == cb: comp_to_edges_count[ca] = comp_to_edges_count.get(ca, 0) + 1
count_edge(counts, n2c, e) ==
    IF e[1] \in DOMAIN n2c /\ e[2] \in DOMAIN n2c /\ n2c[e[1]] = n2c[e[2]]
    THEN Put(counts, n2c[e[1]], Get(counts, n2c[e[1]], 0) + 1)
    ELSE counts

RECURSIVE comp_to_edges_count(_, _)
\* comp_to_edges_count after "for a, b in edges"
comp_to_edges_count(es, n2c) ==
    IF es = <<>> THEN EmptyDict
    ELSE count_edge(comp_to_edges_count(SubSeq(es, 1, Len(es) - 1), n2c), n2c, es[Len(es)])

RECURSIVE sorted_cids(_)
\* sorted(comp_to_tokens.keys())
sorted_cids(S) ==
    IF S = {} THEN <<>>
    ELSE LET m == CHOOSE x \in S : \A y \in S : x <= y
         IN  <<m>> \o sorted_cids(S \ {m})

\* ComponentEntry(component_id=cid, size=..., edges=..., proteins_count=..., proteins=...)
ComponentEntry(cid, st, requested) ==
    [component_id   |-> cid,
     size           |-> Get(st.comp_sizes, cid, 0),
     edges          |-> Get(st.comp_to_edges_count, cid, 0),
     proteins_count |-> Cardinality(st.comp_to_tokens[cid]),
     proteins       |-> sorted(requested \cap st.comp_to_tokens[cid])]

RECURSIVE component_entries(_, _, _)
\* components after "for cid in sorted(comp_to_tokens.keys())": a component
\* that lacks a requested protein is left out
component_entries(cids, st, requested) ==
    IF cids = <<>> THEN <<>>
    ELSE IF requested # {} /\ ~(requested \subseteq st.comp_to_tokens[cids[1]])
    THEN component_entries(Tail(cids), st, requested)
    ELSE <<ComponentEntry(cids[1], st, requested)>> \o component_entries(Tail(cids), st, requested)

\* FileComponents(filename=filename, components=components)
FileComponents(filename, components) == [filename |-> filename, components |-> components]

-----------------------------------------------------------------------------
(* The membership specification: one request to get_components_membership, *)
(* one step per stage of the handler                                        *)

\* values of body.proteins: none, ['Y1'], ['B'], ['Y1', 'zz']
ProteinLists ==
    {<<>>, <<<<"Y", "1">>>>, <<<<"B">>>>, <<<<"Y", "1">>, <<"z", "z">>>>}

MembershipRequests ==
    [network_name : NetworkNames, proteins : ProteinLists,
     name_mode : {"None", "systematic", "gene"}]

\* the locals of the handler before the first statement
MembershipStart ==
    [gdf_files |-> <<>>, fi |-> 0, files_out |-> <<>>,
     edges |-> <<>>, node_to_comp |-> EmptyDict, comp_sizes |-> EmptyDict,
     comp_to_tokens |-> EmptyDict, comp_to_edges_count |-> EmptyDict]

InitMembership ==
    /\ data_dir = DataDir
    /\ request \in MembershipRequests
    /\ sgd_map \in SgdMaps
    /\ response = <<>>
    /\ membership = MembershipStart
    /\ token_sets = <<>>
    /\ SgdIdle
    /\ layout = <<>>
    /\ ServicesIdle
    /\ pc = "components"
    /\ ProtIdle
    /\ by_node = <<>>
    /\ UFIdle
    /\ GdfIdle

\* a stage of the handler leaves the locals st and moves on
MembershipStep(st, next) ==
    /\ membership' = st
    /\ pc' = next
    /\ UNCHANGED <<data_dir, request, response, sgd_map, protVars, by_node, token_sets, sgdVars, layout, serviceVars, ufVars, gdfVars>>

\* the handler answers
MembershipAnswer(r) ==
    /\ response' = r
    /\ pc' = "done"
    /\ UNCHANGED <<data_dir, request, sgd_map, membership, protVars, by_node, token_sets, sgdVars, layout, serviceVars, ufVars, gdfVars>>

\* the file of this iteration of "for filename in gdf_files"
MembershipFile == NetworkFiles[membership.gdf_files[membership.fi + 1]]

\* _parse_nodes_and_edges on the file of this iteration
MembershipParsed ==
    _parse_nodes_and_edges(MembershipFile, membership_name_mode(request), sgd_map)

\* dir_path = _read_network_dir(network_name) raises
MembershipDirFails ==
    /\ pc = "components"
    /\ _read_network_dir(data_dir, request.network_name).raised
    /\ MembershipAnswer(membership_except(_read_network_dir(data_dir, request.network_name).exc))

\* gdf_files = _iter_gdf_files(dir_path)
MembershipListFiles ==
    /\ pc = "components"
    /\ ~_read_network_dir(data_dir, request.network_name).raised
    /\ MembershipStep([membership EXCEPT !.gdf_files = _iter_gdf_files(NetworkFiles)], "file")

\* except Exception: files_out.append(FileComponents(filename, [])); continue
MembershipSkipFile ==
    /\ pc = "file"
    /\ membership.fi < Len(membership.gdf_files)
    /\ MembershipParsed.raised
    /\ MembershipStep([membership EXCEPT
            !.files_out = Append(@, FileComponents(membership.gdf_files[membership.fi + 1], <<>>)),
            !.fi = @ + 1], "file")

\* the locals after _compute_components and the comp_to_tokens loop
with_membership(st, r, comps) ==
    [st EXCEPT !.edges = r.edges,
               !.node_to_comp = comps.node_to_comp,
               !.comp_sizes = comps.comp_sizes,
               !.comp_to_tokens = comp_to_tokens(r.node_to_tokens, comps.node_to_comp),
               !.comp_to_edges_count = EmptyDict]

\* node_to_comp, comp_sizes = _compute_components(node_ids, edges) and the
\* loop that builds comp_to_tokens
MembershipComponents ==
    /\ pc = "file"
    /\ membership.fi < Len(membership.gdf_files)
    /\ ~MembershipParsed.raised
    /\ \E r \in {MembershipParsed} :
        \E comps \in {_compute_components(r.node_ids, r.edges)} :
            MembershipStep(with_membership(membership, r, comps), "edges")

\* the loop "for a, b in edges"
MembershipCountEdges ==
    /\ pc = "edges"
    /\ MembershipStep([membership EXCEPT
            !.comp_to_edges_count = comp_to_edges_count(membership.edges, membership.node_to_comp)],
            "entries")

\* the loop that builds components, and files_out.append(...)
MembershipAppend ==
    /\ pc = "entries"
    /\ \E cs \in {component_entries(sorted_cids(DOMAIN membership.comp_to_tokens), membership,
                                    Range(request.proteins))} :
        MembershipStep([membership EXCEPT
            !.files_out = Append(@, FileComponents(membership.gdf_files[membership.fi + 1], cs)),
            !.fi = @ + 1], "file")

\* return ComponentsResponse(files=files_out)
MembershipReturn ==
    /\ pc = "file"
    /\ membership.fi = Len(membership.gdf_files)
    /\ MembershipAnswer([status |-> 200, body |-> [files |-> membership.files_out]])

NextMembership ==
    \/ MembershipDirFails
    \/ MembershipListFiles
    \/ MembershipSkipFile
    \/ MembershipComponents
    \/ MembershipCountEdges
    \/ MembershipAppend
    \/ MembershipReturn

SpecMembership == InitMembership /\ [][NextMembership]_vars

-----------------------------------------------------------------------------
(* Claims on get_components_membership *)

\* the lines of the file that add an edge
EdgeRows(ls, name_mode, map) ==
    {k \in 1..Len(ls) : Len(ParsedUpTo(ls, k, name_mode, map).edges)
                            > Len(ParsedUpTo(ls, k - 1, name_mode, map).edges)}

\* the two endpoints that edge row k names
RowEdge(ls, k, name_mode, map) ==
    ParsedUpTo(ls, k, name_mode, map).edges[Len(ParsedUpTo(ls, k, name_mode, map).edges)]

\* the edge rows whose two endpoints are both in the set ns of node ids
RowsInside(ls, ns, name_mode, map) ==
    {k \in EdgeRows(ls, name_mode, map) :
        RowEdge(ls, k, name_mode, map)[1] \in ns /\ RowEdge(ls, k, name_mode, map)[2] \in ns}

\* the node ids of component cid of the file
ComponentIds(ls, cid, name_mode, map) ==
    {n \in DOMAIN FileNodeToComp(ls, name_mode, map) : FileNodeToComp(ls, name_mode, map)[n] = cid}

\* the number of edge rows inside component cid of the file
EdgeRowsOfComponent(ls, cid, name_mode, map) ==
    Cardinality(RowsInside(ls, ComponentIds(ls, cid, name_mode, map), name_mode, map))

\* the number of edge rows with both endpoints in the node set of the file
EdgeRowsOfNodeSet(ls, name_mode, map) ==
    Cardinality(RowsInside(ls, DOMAIN FileNodeToComp(ls, name_mode, map), name_mode, map))

RECURSIVE TotalOver(_, _)
\* the sum of d.get(k, 0) over the keys k of S
TotalOver(d, S) ==
    IF S = {} THEN 0
    ELSE LET k == CHOOSE x \in S : TRUE
         IN  Get(d, k, 0) + TotalOver(d, S \ {k})

RECURSIVE EdgesListed(_)
\* the sum of the edges values of the listed components of a file
EdgesListed(components) ==
    IF components = <<>> THEN 0
    ELSE components[1].edges + EdgesListed(Tail(components))

\* the file that entry i of the response is about
ListedFile(i) == NetworkFiles[membership.files_out[i].filename]

\* the counts of the file of this iteration are what the edge rows give
CountsOfFileAgree ==
    /\ \A cid \in Range(membership.node_to_comp) :
            Get(membership.comp_to_edges_count, cid, 0)
                = EdgeRowsOfComponent(MembershipFile, cid, membership_name_mode(request), sgd_map)
    /\ TotalOver(membership.comp_to_edges_count, Range(membership.node_to_comp))
            = EdgeRowsOfNodeSet(MembershipFile, membership_name_mode(request), sgd_map)

\* the edges values of the response are what the edge rows give
ListedEdgesAgree ==
    \A i \in DOMAIN membership.files_out :
        /\ \A e \in Range(membership.files_out[i].components) :
                e.edges = EdgeRowsOfComponent(ListedFile(i), e.component_id,
                                              membership_name_mode(request), sgd_map)
        /\ (request.proteins = <<>> /\ membership.files_out[i].components # <<>>)
                => EdgesListed(membership.files_out[i].components)
                        = EdgeRowsOfNodeSet(ListedFile(i), membership_name_mode(request), sgd_map)

\* C13: the edges value of a component is the number of edge rows of the
\* file whose two endpoints are both nodes of that component; an edge row
\* with an endpoint outside the node set adds to no component, so the
\* counts of the components of a file sum to the number of edge rows with
\* both endpoints in the node set
C13_EdgesCountRowsInsideComponent ==
    /\ pc = "entries" => CountsOfFileAgree
    /\ (pc = "done" /\ response.status = 200) => ListedEdgesAgree

\* a response lists a file with two components that hold edges, and an
\* edge row of the file names a node that is not in the file
C13_Witness ==
    /\ pc = "done" /\ response.status = 200
    /\ \E i \in DOMAIN membership.files_out :
        /\ Len(membership.files_out[i].components) = 2
        /\ \A e \in Range(membership.files_out[i].components) : e.edges > 0
        /\ EdgeRowsOfNodeSet(ListedFile(i), membership_name_mode(request), sgd_map)
                < Cardinality(EdgeRows(ListedFile(i), membership_name_mode(request), sgd_map))

-----------------------------------------------------------------------------
(* networks.py: get_network_files and get_gdf_file; proteins.py:            *)
(* get_component_subgraph.  A handler outcome is [raised, exc] or           *)
(* [raised, body].                                                          *)

\* the handler raises exc
raises(exc) == [raised |-> TRUE, exc |-> exc]

\* the handler returns body
returns(body) == [raised |-> FALSE, body |-> body]

\* os.path.exists(data_path) for the entry of a network
network_exists(dir, network_name) == network_name \in DOMAIN dir

\* os.path.exists(file_path) for a file of a network
file_exists(dir, network_name, filename) ==
    /\ network_name \in DOMAIN dir
    /\ dir[network_name].isdir
    /\ filename \in DOMAIN dir[network_name].files

\* except HTTPException: raise, then except Exception: raise HTTPException(500)
except_http_first(exc, detail) ==
    IF exc.type = "HTTPException" THEN error_response(exc)
    ELSE error_response(HTTPException(500, detail))

\* except Exception as e: raise HTTPException(status_code=500, ...), the
\* only except clause of get_network_files and get_gdf_file; HTTPException
\* is an Exception
except_exception(exc, detail) == error_response(HTTPException(500, detail))

\* the try block of get_network_files
network_files_try(dir, network_name) ==
    IF ~network_exists(dir, network_name)
    THEN raises(HTTPException(404, "Network not found"))
    ELSE IF ~dir[network_name].isdir
    THEN raises(HTTPException(400, "not a directory"))
    ELSE returns(_iter_gdf_files(dir[network_name].files))

\* cytoscape_graph = parse_gdf_to_cytoscape(gdf_content)
parsed_graph(g) ==
    IF g.raised THEN raises([type |-> "Exception"])
    ELSE returns([nodes |-> g.nodes, edges |-> g.edges])

\* the try block of get_gdf_file
gdf_file_try(dir, network_name, filename, map) ==
    IF ~file_exists(dir, network_name, filename)
    THEN raises(HTTPException(404, "File not found in network"))
    ELSE IF ~endswith(filename, S_gdf)
    THEN raises(HTTPException(400, "File must be a GDF file"))
    ELSE parsed_graph(parse_gdf_to_cytoscape(dir[network_name].files[filename], map))

\* comp_nodes = {n for n in node_ids if node_to_comp.get(n) == component_id}
comp_nodes(ids, n2c, component_id) ==
    {n \in Range(ids) : n \in DOMAIN n2c /\ n2c[n] = component_id}

RECURSIVE nodes_out(_, _)
\* the nodes of full_graph whose str(data.get("id", "")) is in comp_nodes
nodes_out(ns, ids) ==
    IF ns = <<>> THEN <<>>
    ELSE IF str(Get(ns[1], S_id, PyStr(<<>>))) \in ids
    THEN <<ns[1]>> \o nodes_out(Tail(ns), ids)
    ELSE nodes_out(Tail(ns), ids)

RECURSIVE edges_out(_, _)
\* the edges of full_graph with source and target in comp_node_ids
edges_out(es, ids) ==
    IF es = <<>> THEN <<>>
    ELSE IF str(Get(es[1], S_source, PyStr(<<>>))) \in ids
            /\ str(Get(es[1], S_target, PyStr(<<>>))) \in ids
    THEN <<es[1]>> \o edges_out(Tail(es), ids)
    ELSE edges_out(Tail(es), ids)

\* comp_node_ids = {str(d.data.get("id", "")) for d in nodes_out}
comp_node_ids(ns) == {str(Get(ns[i], S_id, PyStr(<<>>))) : i \in DOMAIN ns}

\* SubgraphGraph(nodes=nodes_out, edges=edges_out)
SubgraphGraph(g, ids) ==
    [nodes |-> nodes_out(g.nodes, ids),
     edges |-> edges_out(g.edges, comp_node_ids(nodes_out(g.nodes, ids)))]

\* get_component_subgraph once the file was found, r the result of
\* _parse_nodes_and_edges and g that of parse_gdf_to_cytoscape
subgraph_of(r, g, component_id) ==
    IF r.raised \/ g.raised THEN raises([type |-> "Exception"])
    ELSE returns(SubgraphGraph(g, comp_nodes(r.node_ids,
                                  _compute_components(r.node_ids, r.edges).node_to_comp,
                                  component_id)))

\* the try block of get_component_subgraph
component_subgraph_try(dir, network_name, filename, component_id, name_mode, map) ==
    IF _read_network_dir(dir, network_name).raised
    THEN raises(_read_network_dir(dir, network_name).exc)
    ELSE IF filename \notin DOMAIN dir[network_name].files
    THEN raises(HTTPException(404, "File not found"))
    ELSE subgraph_of(_parse_nodes_and_edges(dir[network_name].files[filename], name_mode, map),
                     parse_gdf_to_cytoscape(dir[network_name].files[filename], map),
                     component_id)

-----------------------------------------------------------------------------
(* The lookup specification: one request to get_network_files, get_gdf_file *)
(* or get_component_subgraph                                                *)

\* 'zz.gdf', a file no network holds
N_zz_gdf == <<"z", "z", ".", "g", "d", "f">>

\* the file names a request may carry
FileNames == {N_a_gdf, N_notes_txt, N_zz_gdf}

\* largest component id requested
MaxComponentId == 1

LookupRequests ==
    [handler : {"get_network_files", "get_gdf_file", "get_component_subgraph"},
     network_name : NetworkNames, filename : FileNames,
     component_id : 0..MaxComponentId, name_mode : {"systematic", "gene"}]

InitLookup ==
    /\ data_dir = DataDir
    /\ request \in LookupRequests
    /\ sgd_map \in SgdMaps
    /\ response = <<>>
    /\ pc = "lookup"
    /\ ProtIdle
    /\ by_node = <<>>
    /\ OtherIdle
    /\ UFIdle
    /\ GdfIdle

\* the handler answers
LookupAnswer(r) ==
    /\ response' = r
    /\ pc' = "done"
    /\ UNCHANGED <<data_dir, request, sgd_map, protVars, by_node, otherVars, ufVars, gdfVars>>

\* get_network_files raises inside its try block
NetworkFilesFails ==
    /\ pc = "lookup" /\ request.handler = "get_network_files"
    /\ network_files_try(data_dir, request.network_name).raised
    /\ LookupAnswer(except_exception(network_files_try(data_dir, request.network_name).exc,
                                     "Error reading network files"))

\* return gdf_files
NetworkFilesReturn ==
    /\ pc = "lookup" /\ request.handler = "get_network_files"
    /\ ~network_files_try(data_dir, request.network_name).raised
    /\ LookupAnswer([status |-> 200, body |-> network_files_try(data_dir, request.network_name).body])

\* the outcome of the try block of get_gdf_file for the request
GdfFileOutcome == gdf_file_try(data_dir, request.network_name, request.filename, sgd_map)

\* get_gdf_file raises inside its try block
GdfFileFails ==
    /\ pc = "lookup" /\ request.handler = "get_gdf_file"
    /\ GdfFileOutcome.raised
    /\ LookupAnswer(except_exception(GdfFileOutcome.exc, "Error reading GDF file"))

\* return cytoscape_graph
GdfFileReturn ==
    /\ pc = "lookup" /\ request.handler = "get_gdf_file"
    /\ ~GdfFileOutcome.raised
    /\ LookupAnswer([status |-> 200, body |-> GdfFileOutcome.body])

\* the outcome of the try block of get_component_subgraph for the request
SubgraphOutcome ==
    component_subgraph_try(data_dir, request.network_name, request.filename,
                           request.component_id, request.name_mode, sgd_map)

\* get_component_subgraph raises inside its try block
SubgraphFails ==
    /\ pc = "lookup" /\ request.handler = "get_component_subgraph"
    /\ SubgraphOutcome.raised
    /\ LookupAnswer(except_http_first(SubgraphOutcome.exc, "Error building subgraph"))

\* return SubgraphGraph(nodes=nodes_out, edges=edges_out)
SubgraphReturn ==
    /\ pc = "lookup" /\ request.handler = "get_component_subgraph"
    /\ ~SubgraphOutcome.raised
    /\ LookupAnswer([status |-> 200, body |-> SubgraphOutcome.body])

NextLookup ==
    \/ NetworkFilesFails
    \/ NetworkFilesReturn
    \/ GdfFileFails
    \/ GdfFileReturn
    \/ SubgraphFails
    \/ SubgraphReturn

SpecLookup == InitLookup /\ [][NextLookup]_vars

-----------------------------------------------------------------------------
(* Claims on the lookups *)

\* the status the try block of the handler raised, 0 when it raised none
\* but returned or failed otherwise
RaisedStatus(outcome) ==
    IF outcome.raised /\ outcome.exc.type = "HTTPException" THEN outcome.exc.status_code ELSE 0

\* the status raised inside the handler of the request
LookupRaisedStatus ==
    IF request.handler = "get_network_files"
    THEN RaisedStatus(network_files_try(data_dir, request.network_name))
    ELSE IF request.handler = "get_gdf_file" THEN RaisedStatus(GdfFileOutcome)
    ELSE RaisedStatus(SubgraphOutcome)

\* C15: a failed file or network lookup reaches the caller as raised:
\* get_gdf_file answers 404 for a file that does not exist and 400 for an
\* existing file whose name does not end in .gdf, get_network_files
\* answers 404 for a network that does not exist, and in every lookup
\* handler the status raised inside the handler is the status of the
\* response
C15_LookupStatusReachesCaller ==
    pc = "done" =>
        /\ (request.handler = "get_gdf_file"
                /\ ~file_exists(data_dir, request.network_name, request.filename))
            => response.status = 404
        /\ (request.handler = "get_gdf_file"
                /\ file_exists(data_dir, request.network_name, request.filename)
                /\ ~endswith(request.filename, S_gdf))
            => response.status = 400
        /\ (request.handler = "get_network_files"
                /\ ~network_exists(data_dir, request.network_name))
            => response.status = 404
        /\ LookupRaisedStatus # 0 => response.status = LookupRaisedStatus

\* in the proteins routes the raised status is the observed one
C15_SubgraphStatusReachesCaller ==
    (pc = "done" /\ request.handler = "get_component_subgraph" /\ LookupRaisedStatus # 0)
        => response.status = LookupRaisedStatus

\* get_component_subgraph answered 404 for a missing file
C15_SubgraphNotFoundReached ==
    /\ pc = "done" /\ request.handler = "get_component_subgraph"
    /\ request.network_name \in DOMAIN data_dir
    /\ response.status = 404

-----------------------------------------------------------------------------
(* networks.py: get_component_proteins_by_node *)

\* None
PyNone == [t |-> "none"]

\* the truth value of a Python value
truthy(x) ==
    IF x.t = "none" THEN FALSE
    ELSE IF x.t = "str" THEN x.v # <<>>
    ELSE IF x.t = "int" THEN x.v # 0
    ELSE x.ip # 0 \/ \E i \in DOMAIN x.fd : x.fd[i] # "0"

\* 'unknown'
S_unknown == <<"u", "n", "k", "n", "o", "w", "n">>

\* tokenize_label(label_text): a set of tokens
tokenize_label(label_text, name_mode, map) ==
    IF name_mode = "gene"
    THEN {Get(map, upper(tok), tok) : tok \in Range(split_ws(label_text))} \ {<<>>}
    ELSE Range(split_ws(label_text)) \ {<<>>}

\* data.get(key) or data.get("label")
label_or(data, key) ==
    IF truthy(Get(data, key, PyNone)) THEN Get(data, key, PyNone) ELSE Get(data, S_label, PyNone)

\* label_val of a node: the label of the name mode, else str(name), else the id
node_label(label_val, data, nid) ==
    IF is_str(label_val) /\ label_val.v # <<>> THEN label_val.v
    ELSE str(Get(data, S_name, PyStr(nid)))

\* str(node_type_val) if node_type_val is not None else "unknown"
node_type(data) ==
    IF Get(data, S_type, PyNone).t = "none" THEN S_unknown ELSE str(Get(data, S_type, PyNone))

\* the loop body of "for n in req.graph.nodes" for a node with an id
collect_node(st, data, nid, name_mode) ==
    [st EXCEPT !.node_ids = Append(@, nid),
               !.node_to_label = Put(@, nid, node_label(label_or(data, IF name_mode = "gene" THEN S_label_gene ELSE S_label_sys), data, nid)),
               !.node_to_type = Put(@, nid, node_type(data))]

RECURSIVE collect_nodes(_, _, _)
\* for n in req.graph.nodes: a node without an id is skipped
collect_nodes(st, ns, name_mode) ==
    IF ns = <<>> THEN st
    ELSE IF Get(ns[1], S_id, PyNone).t = "none" THEN collect_nodes(st, Tail(ns), name_mode)
    ELSE collect_nodes(collect_node(st, ns[1], str(ns[1][S_id]), name_mode), Tail(ns), name_mode)

RECURSIVE collect_edges(_)
\* for e in req.graph.edges: an edge without source or target is skipped
collect_edges(es) ==
    IF es = <<>> THEN <<>>
    ELSE IF Get(es[1], S_source, PyNone).t = "none" \/ Get(es[1], S_target, PyNone).t = "none"
    THEN collect_edges(Tail(es))
    ELSE <<(<<str(es[1][S_source]), str(es[1][S_target])>>)>> \o collect_edges(Tail(es))

\* the union-find of the handler and its id assignment, the code of
\* _compute_components repeated inline: [node_to_comp, comp_sizes]
by_node_components(ids, es) == _compute_components(ids, es)

\* component_nodes = [n for n in node_ids if node_to_comp.get(n) == target_cid]
component_nodes(ids, n2c, target_cid) == filter_in(ids, {n \in DOMAIN n2c : n2c[n] = target_cid})

\* the positions of component_nodes whose node has the token in its label
token_nodes(cn, n2l, token, name_mode, map) ==
    {i \in DOMAIN cn : token \in tokenize_label(Get(n2l, cn[i], <<>>), name_mode, map)}

\* the tokens of the labels of the nodes ns
tokens_of(ns, n2l, name_mode, map) ==
    UNION {tokenize_label(Get(n2l, ns[i], <<>>), name_mode, map) : i \in DOMAIN ns}

\* protein_counts after "for n in component_nodes"
count_proteins(cn, n2l, name_mode, map) ==
    [token \in tokens_of(cn, n2l, name_mode, map) |->
        Cardinality(token_nodes(cn, n2l, token, name_mode, map))]

\* protein_type_counts[token] after "for n in component_nodes"
count_types(cn, n2l, n2t, token, name_mode, map) ==
    [ty \in {Get(n2t, cn[i], S_unknown) : i \in token_nodes(cn, n2l, token, name_mode, map)} |->
        Cardinality({i \in token_nodes(cn, n2l, token, name_mode, map) : Get(n2t, cn[i], S_unknown) = ty})]

\* protein_type_counts after "for n in component_nodes"
count_protein_types(cn, n2l, n2t, name_mode, map) ==
    [token \in tokens_of(cn, n2l, name_mode, map) |-> count_types(cn, n2l, n2t, token, name_mode, map)]

\* token_to_comp_set_graph
graph_comp_sets(ids, n2l, n2c, name_mode, map) ==
    [token \in tokens_of(ids, n2l, name_mode, map) |->
        {n2c[ids[i]] : i \in token_nodes(ids, n2l, token, name_mode, map)}]

\* the reference file scope: token_to_comp_set_file and target_file_cid;
\* available = FALSE is token_to_comp_set_file = None, target_cid = -1 is
\* target_file_cid = None
no_file_scope == [available |-> FALSE, token_to_comp_set |-> EmptyDict, target_cid |-> -1]

\* token_to_comp_set_file of the parsed file r with components n2c
file_comp_sets(r, n2c) ==
    [token \in UNION {r.node_to_tokens[n] : n \in DOMAIN r.node_to_tokens} |->
        {n2c[n] : n \in {m \in DOMAIN r.node_to_tokens : m \in DOMAIN n2c /\ token \in r.node_to_tokens[m]}}]

\* the file scope of the parsed file r
file_scope_of(r, n2c, node_id) ==
    [available |-> TRUE, token_to_comp_set |-> file_comp_sets(r, n2c), target_cid |-> Get(n2c, node_id, -1)]

\* the file scope of the parsed file r; an exception leaves none
file_scope_parsed(r, node_id) ==
    IF r.raised THEN no_file_scope
    ELSE file_scope_of(r, by_node_components(r.node_ids, r.edges).node_to_comp, node_id)

\* os.path.exists(file_path) and file_path.endswith(".gdf")
reference_file_exists(dir, network, filename) ==
    /\ network \in DOMAIN dir
    /\ dir[network].isdir
    /\ filename \in DOMAIN dir[network].files
    /\ endswith(filename, S_gdf)

\* the block "if req.network and req.filename"
file_scope(dir, network, filename, node_id, name_mode, map) ==
    IF network = "" \/ filename = <<>> THEN no_file_scope
    ELSE IF ~reference_file_exists(dir, network, filename) THEN no_file_scope
    ELSE file_scope_parsed(parse_reference_file(dir[network].files[filename], name_mode, map), node_id)

\* max(0, len(comp_set) - (1 if target in comp_set else 0))
others(comp_set, target) == Cardinality(comp_set \ {target})

\* other_components of a protein: the file scope if there is one, else the
\* graph scope
other_components(protein, fs, graph_sets, target_cid) ==
    IF fs.available THEN others(Get(fs.token_to_comp_set, protein, {}), fs.target_cid)
    ELSE others(Get(graph_sets, protein, {}), target_cid)

\* ComponentProteinCount of one protein; a ratio is kept as the two
\* numbers it divides
protein_count(protein, st, comp_size) ==
    [protein |-> protein,
     count |-> st.protein_counts[protein],
     type_counts |-> st.protein_type_counts[protein],
     ratio |-> [num |-> st.protein_counts[protein], den |-> comp_size],
     type_ratios |-> [ty \in DOMAIN st.protein_type_counts[protein] |->
                        [num |-> st.protein_type_counts[protein][ty], den |-> st.protein_counts[protein]]],
     other_components |-> other_components(protein, st.file_scope, st.token_to_comp_set_graph, st.target_cid)]

\* the sort key (-x.count, x.protein): a comes before b
count_before(counts, a, b) ==
    counts[a] > counts[b] \/ (counts[a] = counts[b] /\ str_le(a, b))

RECURSIVE sorted_by_count(_, _)
\* the proteins S in the order of protein_counts_list.sort(...)
sorted_by_count(S, counts) ==
    IF S = {} THEN <<>>
    ELSE LET m == CHOOSE x \in S : \A y \in S : count_before(counts, x, y)
         IN  <<m>> \o sorted_by_count(S \ {m}, counts)

\* protein_counts_list after the sort
protein_counts_list(order, st, comp_size) ==
    [i \in DOMAIN order |-> protein_count(order[i], st, comp_size)]

\* req.name_mode or "systematic"
name_mode_of(req) == IF req.name_mode = "None" THEN "systematic" ELSE req.name_mode

\* a handler whose except clause turns every exception into a 500
by_node_except_all(exc) ==
    error_response(HTTPException(500, "Error computing component proteins"))

\* except HTTPException: raise
\* except Exception as e: raise HTTPException(status_code=500, ...)
by_node_except(exc) ==
    IF exc.type = "HTTPException" THEN error_response(exc)
    ELSE error_response(HTTPException(500, "Error computing component proteins"))

-----------------------------------------------------------------------------
(* The by-node specification: one request to                               *)
(* get_component_proteins_by_node, one step per stage of the handler       *)

\* nodes of request graphs, each the data dict of a CytoscapeNode
\* {'id': '1', 'label': 'Y1 y2 Y1', 'type': 'prediction'}
Node_1 ==
    (<<"i", "d">> :> PyStr(<<"1">>)) @@ (<<"l", "a", "b", "e", "l">> :> PyStr(<<"Y", "1", " ", "y", "2", " ", "Y", "1">>)) @@ (<<"t", "y", "p", "e">> :> PyStr(<<"p", "r", "e", "d", "i", "c", "t", "i", "o", "n">>))

\* {'id': '2', 'label': 'Y1', 'type': 'reference'}
Node_2 ==
    (<<"i", "d">> :> PyStr(<<"2">>)) @@ (<<"l", "a", "b", "e", "l">> :> PyStr(<<"Y", "1">>)) @@ (<<"t", "y", "p", "e">> :> PyStr(<<"r", "e", "f", "e", "r", "e", "n", "c", "e">>))

\* {'id': '3', 'label': 'B', 'label_sys': 'B', 'label_gene': 'G1 B'}
Node_3 ==
    (<<"i", "d">> :> PyStr(<<"3">>)) @@ (<<"l", "a", "b", "e", "l">> :> PyStr(<<"B">>)) @@ (<<"l", "a", "b", "e", "l", "_", "s", "y", "s">> :> PyStr(<<"B">>)) @@ (<<"l", "a", "b", "e", "l", "_", "g", "e", "n", "e">> :> PyStr(<<"G", "1", " ", "B">>))

\* {'id': '1', 'label': 'B', 'type': 'reference'}: the id of Node_1 once more
Node_1_again ==
    (<<"i", "d">> :> PyStr(<<"1">>)) @@ (<<"l", "a", "b", "e", "l">> :> PyStr(<<"B">>)) @@ (<<"t", "y", "p", "e">> :> PyStr(<<"r", "e", "f", "e", "r", "e", "n", "c", "e">>))

\* {'id': 4, 'name': 'y2'}
Node_4 ==
    (<<"i", "d">> :> PyInt(4)) @@ (<<"n", "a", "m", "e">> :> PyStr(<<"y", "2">>))

\* {'label': 'zz'}
Node_no_id ==
    (<<"l", "a", "b", "e", "l">> :> PyStr(<<"z", "z">>))

NodePool == {Node_1, Node_2, Node_3, Node_1_again, Node_4, Node_no_id}

\* most nodes of a request graph
MaxGraphNodes == 3

GraphNodeLists == UNION {[1..n -> NodePool] : n \in 0..MaxGraphNodes}

\* the data dict of a CytoscapeEdge with source s and target t
Edge(s, t) == (S_source :> s) @@ (S_target :> t)

\* the edge lists of request graphs: none, 1-2, 1-2 and 2-3, and a list
\* with an endpoint that is no node, an edge without target and int ids
GraphEdgeLists ==
    {<<>>,
     <<Edge(PyStr(<<"1">>), PyStr(<<"2">>))>>,
     <<Edge(PyStr(<<"1">>), PyStr(<<"2">>)), Edge(PyStr(<<"2">>), PyStr(<<"3">>))>>,
     <<Edge(PyStr(<<"1">>), PyStr(<<"9">>)), (S_source :> PyStr(<<"3">>)), Edge(PyInt(4), PyInt(3))>>}

\* the reference files a request may name: none, a.gdf of yeast, the
\* unreadable a.gdf of broken
ReferenceFiles ==
    {[network |-> "", filename |-> <<>>],
     [network |-> "yeast", filename |-> N_a_gdf],
     [network |-> "broken", filename |-> N_a_gdf]}

ByNodeRequests ==
    {[node_id |-> n, nodes |-> ns, edges |-> es, network |-> f.network,
      filename |-> f.filename, name_mode |-> m] :
        n \in {<<"1">>, <<"3">>}, ns \in GraphNodeLists, es \in GraphEdgeLists,
        f \in ReferenceFiles, m \in {"None", "gene"}}

\* the locals of the handler before its first statement
ByNodeStart ==
    [node_ids |-> <<>>, node_to_label |-> EmptyDict, node_to_type |-> EmptyDict,
     node_to_comp |-> EmptyDict, comp_sizes |-> EmptyDict, target_cid |-> -1,
     protein_counts |-> EmptyDict, protein_type_counts |-> EmptyDict,
     token_to_comp_set_graph |-> EmptyDict, file_scope |-> no_file_scope]

InitByNode ==
    /\ data_dir = DataDir
    /\ request \in ByNodeRequests
    /\ sgd_map \in SgdMaps
    /\ response = <<>>
    /\ by_node = ByNodeStart
    /\ OtherIdle
    /\ pc = "by_node"
    /\ ProtIdle
    /\ UFIdle
    /\ GdfIdle

\* a stage of the handler leaves the locals st and moves on
ByNodeStep(st, next) ==
    /\ by_node' = st
    /\ pc' = next
    /\ UNCHANGED <<data_dir, request, response, sgd_map, protVars, notHandlers>>

\* "Collect node ids and labels"
ByNodeCollectNodes ==
    /\ pc = "by_node"
    /\ \E st \in {collect_nodes(by_node, request.nodes, name_mode_of(request))} :
            ByNodeStep(st, "target")

\* if target_id not in node_to_label: raise HTTPException(404, ...)
ByNodeNotFound ==
    /\ pc = "target"
    /\ request.node_id \notin DOMAIN by_node.node_to_label
    /\ response' = by_node_except(HTTPException(404, "Node not found in graph"))
    /\ pc' = "done"
    /\ UNCHANGED <<data_dir, request, sgd_map, by_node, protVars, notHandlers>>

\* the locals after the union-find over the collected edges
with_components(st, c, target_id) ==
    [st EXCEPT !.node_to_comp = c.node_to_comp,
               !.comp_sizes = c.comp_sizes,
               !.target_cid = c.node_to_comp[target_id]]

\* "Collect edges", the union-find and "Assign compact component ids"
ByNodeComponents ==
    /\ pc = "target"
    /\ request.node_id \in DOMAIN by_node.node_to_label
    /\ \E c \in {by_node_components(by_node.node_ids, collect_edges(request.edges))} :
            ByNodeStep(with_components(by_node, c, request.node_id), "count")

\* the locals after the token counting over cn = component_nodes
with_counts(st, cn, name_mode, map) ==
    [st EXCEPT !.protein_counts = count_proteins(cn, st.node_to_label, name_mode, map),
               !.protein_type_counts = count_protein_types(cn, st.node_to_label, st.node_to_type, name_mode, map),
               !.token_to_comp_set_graph = graph_comp_sets(st.node_ids, st.node_to_label, st.node_to_comp, name_mode, map)]

\* "Collect protein tokens from labels within the target component" and
\* the token -> component ids index of the graph
ByNodeCount ==
    /\ pc = "count"
    /\ \E cn \in {component_nodes(by_node.node_ids, by_node.node_to_comp, by_node.target_cid)} :
            ByNodeStep(with_counts(by_node, cn, name_mode_of(request), sgd_map), "file")

\* the optional parse of the reference file
ByNodeFileScope ==
    /\ pc = "file"
    /\ \E fs \in {file_scope(data_dir, request.network, request.filename, request.node_id,
                             name_mode_of(request), sgd_map)} :
            ByNodeStep([by_node EXCEPT !.file_scope = fs], "respond")

\* return ByNodeResponse(...)
ByNodeRespond ==
    /\ pc = "respond"
    /\ response' =
        [status |-> 200,
         body |-> [component_id |-> by_node.target_cid,
                   size |-> Get(by_node.comp_sizes, by_node.target_cid, 0),
                   protein_counts |->
                        protein_counts_list(sorted_by_count(DOMAIN by_node.protein_counts, by_node.protein_counts),
                                            by_node, Get(by_node.comp_sizes, by_node.target_cid, 0))]]
    /\ pc' = "done"
    /\ UNCHANGED <<data_dir, request, sgd_map, by_node, protVars, notHandlers>>

NextByNode ==
    \/ ByNodeCollectNodes
    \/ ByNodeNotFound
    \/ ByNodeComponents
    \/ ByNodeCount
    \/ ByNodeFileScope
    \/ ByNodeRespond

SpecByNode == InitByNode /\ [][NextByNode]_vars

-----------------------------------------------------------------------------
(* Claims on get_component_proteins_by_node *)

\* the nodes of the request graph that have an id, by position
GraphNodes == {i \in DOMAIN request.nodes : Get(request.nodes[i], S_id, PyNone).t # "none"}

\* the nodes of the request graph in the component of the response
TargetComponentNodes ==
    {i \in GraphNodes : by_node.node_to_comp[str(request.nodes[i][S_id])] = response.body.component_id}

\* the label the handler's rule selects for node i of the request graph
LabelOfNode(i) ==
    node_label(label_or(request.nodes[i],
                        IF name_mode_of(request) = "gene" THEN S_label_gene ELSE S_label_sys),
               request.nodes[i], str(request.nodes[i][S_id]))

\* the nodes of the target component whose label contains the token
NodesWithToken(token) ==
    {i \in TargetComponentNodes : token \in tokenize_label(LabelOfNode(i), name_mode_of(request), sgd_map)}

RECURSIVE SumOf(_)
\* the sum of the values of a dict of numbers
SumOf(d) ==
    IF DOMAIN d = {} THEN 0
    ELSE LET k == CHOOSE x \in DOMAIN d : TRUE
         IN  d[k] + SumOf([x \in (DOMAIN d) \ {k} |-> d[x]])

\* C8: in the response of get_component_proteins_by_node the count of a
\* protein token is the number of nodes of the target component whose
\* label contains the token (a token repeated in one label counts once),
\* and the token's type_counts sum to that count.
C8_CountIsNodesWithToken ==
    (pc = "done" /\ response.status = 200) =>
        \A k \in DOMAIN response.body.protein_counts :
            /\ response.body.protein_counts[k].count
                = Cardinality(NodesWithToken(response.body.protein_counts[k].protein))
            /\ SumOf(response.body.protein_counts[k].type_counts)
                = response.body.protein_counts[k].count

\* the ids of the nodes of the request graph, as the handler reads them
GraphNodeIds == {str(request.nodes[i][S_id]) : i \in GraphNodes}

\* C14: get_component_proteins_by_node answers 404 whenever node_id is not
\* the id of a node of the request graph, whatever the graph, the empty
\* one included; the 404 reaches the caller as raised, not as a 500
C14_MissingNodeIsNotFound ==
    (pc = "done" /\ request.node_id \notin GraphNodeIds)
        => response = [status |-> 404, detail |-> "Node not found in graph"]

\* a graph with nodes and edges that lacks the requested node was answered
C14_Witness ==
    /\ pc = "done" /\ request.node_id \notin GraphNodeIds
    /\ GraphNodeIds # {} /\ request.edges # <<>>
    /\ response.status = 404

\* the empty graph was answered with 404
C14_EmptyGraphReached ==
    pc = "done" /\ request.nodes = <<>> /\ response.status = 404

\* the request names a reference file that exists, is a .gdf file and parses
ReferenceReadable ==
    /\ request.network # "" /\ request.filename # <<>>
    /\ reference_file_exists(data_dir, request.network, request.filename)
    /\ ~_parse_nodes_and_edges(data_dir[request.network].files[request.filename],
                               name_mode_of(request), sgd_map).raised

\* the lines of the reference file
ReferenceLines == data_dir[request.network].files[request.filename]

\* the components of the reference file that hold the token
FileComponentsWith(token) ==
    {cid \in Range(FileNodeToComp(ReferenceLines, name_mode_of(request), sgd_map)) :
        token \in ComponentTokenSet(ReferenceLines, cid, name_mode_of(request), sgd_map)}

\* the component of the requested node in the reference file, if it has one
FileComponentOfTarget ==
    {FileNodeToComp(ReferenceLines, name_mode_of(request), sgd_map)[n] :
        n \in {request.node_id} \cap DOMAIN FileNodeToComp(ReferenceLines, name_mode_of(request), sgd_map)}

\* the components of the request graph that hold the token
GraphComponentsWith(token) ==
    {by_node.node_to_comp[str(request.nodes[i][S_id])] :
        i \in {n \in GraphNodes : token \in tokenize_label(LabelOfNode(n), name_mode_of(request), sgd_map)}}

\* the number of components, other than that of the requested node, that
\* hold the token: in the reference file when it is readable, else in the
\* request graph
OtherComponentsWith(token) ==
    IF ReferenceReadable
    THEN Cardinality(FileComponentsWith(token) \ FileComponentOfTarget)
    ELSE Cardinality(GraphComponentsWith(token) \ {response.body.component_id})

\* C16: other_components of a listed protein is the number of components
\* other than the one of the requested node that also contain the token,
\* counted in the reference file when network and filename name a
\* readable .gdf file and in the request graph otherwise; the component of
\* the requested node is never counted
C16_OtherComponentsCount ==
    (pc = "done" /\ response.status = 200) =>
        \A k \in DOMAIN response.body.protein_counts :
            response.body.protein_counts[k].other_components
                = OtherComponentsWith(response.body.protein_counts[k].protein)

\* the ids of the nodes of the request graph are distinct
DistinctGraphIds == Cardinality(GraphNodeIds) = Cardinality(GraphNodes)

\* on graphs with distinct ids the count is as stated
C16_HoldsOnDistinctIds == DistinctGraphIds => C16_OtherComponentsCount

\* a count in the reference file and a count in the request graph were
\* reported, each above zero
C16_FileCountReached ==
    /\ pc = "done" /\ response.status = 200 /\ ReferenceReadable /\ DistinctGraphIds
    /\ \E k \in DOMAIN response.body.protein_counts :
            response.body.protein_counts[k].other_components > 0

C16_GraphCountReached ==
    /\ pc = "done" /\ response.status = 200 /\ ~ReferenceReadable /\ DistinctGraphIds
    /\ \E k \in DOMAIN response.body.protein_counts :
            response.body.protein_counts[k].other_components > 0

-----------------------------------------------------------------------------
(* The token specification: the tokens that the three token-producing      *)
(* paths report for one node of a GDF file.  The file holds the header     *)
(* nodedef>name VARCHAR,label VARCHAR and the node line 1,'<label>'; the   *)
(* request graph of get_component_proteins_by_node is the graph that       *)
(* parse_gdf_to_cytoscape returns for the file.                            *)

\* the raw tokens a label is made of
RawTokens == {<<"Y", "1">>, <<"y", "1">>, <<"G", "1">>, <<"B">>}

\* largest number of tokens in a label
MaxTokens == 2

\* the labels: one to MaxTokens raw tokens
RawLabels == UNION {[1..n -> RawTokens] : n \in 1..MaxTokens}

\* 'Y1' -> 'G1' and 'G1' -> 'B': a gene name that is a systematic name too
SgdChain == Put(SgdY1G1, <<"G", "1">>, <<"B">>)

\* the node line 1,'<label>' of the label made of the tokens ts
label_line(ts) == <<"1", ",", "'">> \o join(<<" ">>, ts) \o <<"'">>

\* the file with that node line
label_file(ts) == <<L_nodedef_name_label, label_line(ts)>>

\* the tokens _collect_proteins_from_gdf reports for the file
collected_tokens(ls, name_mode, map) ==
    DOMAIN _collect_proteins_from_gdf(ls, name_mode, map).token_to_types

\* the tokens _parse_nodes_and_edges reports for node nid of the file
parsed_tokens(ls, nid, name_mode, map) ==
    Get(_parse_nodes_and_edges(ls, name_mode, map).node_to_tokens, nid, {})

\* tokenize_label(node_to_label[nid]) of get_component_proteins_by_node
\* for the graph ns
by_node_tokens(ns, nid, name_mode, map) ==
    tokenize_label(Get(collect_nodes(ByNodeStart, ns, name_mode).node_to_label, nid, <<>>),
                   name_mode, map)

InitTokens ==
    /\ request \in [label : RawLabels, name_mode : {"systematic", "gene"}]
    /\ sgd_map \in SgdMaps \cup {SgdChain}
    /\ token_sets = EmptyDict
    /\ pc = "collect_path"
    /\ data_dir = <<>> /\ response = <<>>
    /\ membership = <<>>
    /\ SgdIdle
    /\ layout = <<>>
    /\ ServicesIdle
    /\ ProtIdle
    /\ by_node = <<>>
    /\ UFIdle
    /\ GdfIdle

\* one path reports its tokens
TokenStep(path, tokens, next) ==
    /\ token_sets' = Put(token_sets, path, tokens)
    /\ pc' = next
    /\ UNCHANGED <<data_dir, request, response, sgd_map, membership, sgdVars, layout, serviceVars, protVars, by_node, ufVars, gdfVars>>

\* _collect_proteins_from_gdf on the file
TokensCollected ==
    /\ pc = "collect_path"
    /\ TokenStep("collect", collected_tokens(label_file(request.label), request.name_mode, sgd_map),
                 "parse_path")

\* _parse_nodes_and_edges on the file
TokensParsed ==
    /\ pc = "parse_path"
    /\ TokenStep("parse", parsed_tokens(label_file(request.label), <<"1">>, request.name_mode, sgd_map),
                 "by_node_path")

\* get_component_proteins_by_node on the graph of the file
TokensByNode ==
    /\ pc = "by_node_path"
    /\ \E g \in {parse_gdf_to_cytoscape(label_file(request.label), sgd_map)} :
            TokenStep("by_node", by_node_tokens(g.nodes, <<"1">>, request.name_mode, sgd_map), "done")

NextTokens ==
    \/ TokensCollected
    \/ TokensParsed
    \/ TokensByNode

SpecTokens == InitTokens /\ [][NextTokens]_vars

\* what a raw token yields: itself in systematic mode; in gene mode the
\* dictionary entry of its upper case, or itself when there is none
TokenOf(t, name_mode, map) ==
    IF name_mode = "gene" THEN Get(map, upper(t), t) ELSE t

\* the tokens of the label of the request, the dictionary applied once
ExpectedTokens == {TokenOf(t, request.name_mode, sgd_map) : t \in Range(request.label)}

\* C17: in each of the three token-producing paths a raw label token t
\* yields t in systematic mode and, in gene mode, the dictionary entry of
\* upper-case t or t itself when there is none; the dictionary is applied
\* once per raw token, so the three paths report the same token set for
\* the same node and mode
C17_PathsYieldMappedTokens ==
    pc = "done" =>
        /\ token_sets["collect"] = ExpectedTokens
        /\ token_sets["parse"] = ExpectedTokens
        /\ token_sets["by_node"] = ExpectedTokens

\* the two readers of proteins.py yield the tokens mapped once
C17_ReadersYieldMappedTokens ==
    pc = "done" =>
        /\ token_sets["collect"] = ExpectedTokens
        /\ token_sets["parse"] = ExpectedTokens

\* with a dictionary in which no entry is itself a key the three paths agree
C17_HoldsWithoutChain ==
    sgd_map # SgdChain => C17_PathsYieldMappedTokens

\* gene mode replaced a token and the three paths agree on the result
C17_MappedTokenReached ==
    /\ pc = "done" /\ request.name_mode = "gene"
    /\ ExpectedTokens # Range(request.label)
    /\ token_sets["by_node"] = ExpectedTokens
    /\ token_sets["collect"] = ExpectedTokens

-----------------------------------------------------------------------------
(* networks.py: _load_sgd_sys_to_gene_map.  The file on disk is            *)
(* [exists, readable, lines]; the outcome of a call is [raised, mapping].  *)

\* 'systematic name' and 'systematic_name', the names of a header row
S_systematic_name ==
    <<"s", "y", "s", "t", "e", "m", "a", "t", "i", "c", " ", "n", "a", "m", "e">>

S_systematic_name_u ==
    <<"s", "y", "s", "t", "e", "m", "a", "t", "i", "c", "_", "n", "a", "m", "e">>

\* mapping[sys_name.upper()] = gene_name, gene_name = sys_name when empty
sgd_entry(mapping, sys_name, gene_name) ==
    Put(mapping, upper(sys_name), IF gene_name = <<>> THEN sys_name ELSE gene_name)

\* the loop body once the line has five columns or more
sgd_columns(mapping, parts) ==
    IF strip(parts[4]) = <<>> THEN mapping
    ELSE IF lower(strip(parts[4])) \in {S_systematic_name, S_systematic_name_u} THEN mapping
    ELSE sgd_entry(mapping, strip(parts[4]), strip(parts[5]))

\* the body of "for raw in f"
sgd_line(mapping, line) ==
    IF line = <<>> THEN mapping
    ELSE IF Len(split(line, "\t")) < 5 THEN mapping
    ELSE sgd_columns(mapping, split(line, "\t"))

RECURSIVE sgd_lines(_, _)
\* mapping after the loop over the lines ls
sgd_lines(mapping, ls) ==
    IF ls = <<>> THEN mapping
    ELSE sgd_lines(sgd_line(mapping, ls[1]), Tail(ls))

\* the try block: a missing file returns the empty mapping, a file that
\* cannot be opened or decoded raises
sgd_try(file) ==
    IF ~file.exists THEN [raised |-> FALSE, mapping |-> EmptyDict]
    ELSE IF ~file.readable THEN [raised |-> TRUE, mapping |-> EmptyDict]
    ELSE [raised |-> FALSE, mapping |-> sgd_lines(EmptyDict, file.lines)]

\* the function without its except clause
load_sgd_uncaught(file) == sgd_try(file)

\* the body of _load_sgd_sys_to_gene_map: except Exception: return {}
_load_sgd_sys_to_gene_map(file) ==
    IF sgd_try(file).raised THEN [raised |-> FALSE, mapping |-> EmptyDict] ELSE sgd_try(file)

-----------------------------------------------------------------------------
(* The mapping specification: the worker threads of the server call        *)
(* _load_sgd_sys_to_gene_map at the start of their handlers while the file *)
(* changes on disk.  lru_cache looks the key up, calls the function on a   *)
(* miss and stores the result unless a result was stored meanwhile.        *)

\* the lines of the reference file
SgdLine_Y1_G1 == <<"a", "\t", "b", "\t", "c", "\t", "Y", "1", "\t", "G", "1", "\t", "x">>

SgdLine_y2 == <<"a", "\t", "b", "\t", "c", "\t", " ", "y", "2", "\t", " ">>

SgdLine_header ==
    <<"a", "\t", "b", "\t", "c", "\t">> \o <<"S", "y", "s", "t", "e", "m", "a", "t", "i", "c", " ", "N", "a", "m", "e">> \o <<"\t", "G">>

SgdLine_short == <<"a", "\t", "Y", "1", "\t", "G", "9">>

SgdLine_no_name == <<"a", "\t", "b", "\t", "c", "\t", "\t", "G", "9">>

SgdLine_Y1_B == <<"a", "\t", "b", "\t", "c", "\t", "y", "1", "\t", "B">>

\* the states of the file: missing, unreadable, two contents
SgdFiles ==
    {[exists |-> FALSE, readable |-> FALSE, lines |-> <<>>],
     [exists |-> TRUE, readable |-> FALSE, lines |-> <<>>],
     [exists |-> TRUE, readable |-> TRUE, lines |-> <<SgdLine_header, SgdLine_Y1_G1, <<>>, SgdLine_y2>>],
     [exists |-> TRUE, readable |-> TRUE, lines |-> <<SgdLine_short, SgdLine_Y1_B, SgdLine_no_name>>]}

\* the worker threads
Threads == {"t1", "t2"}

\* largest number of calls of one thread
MaxCalls == 2

\* a thread that has made no call
NoCall ==
    [pc |-> "idle", calls |-> 0, result |-> <<>>, read_from |-> <<>>,
     returned |-> <<>>, hit |-> FALSE]

InitSgd ==
    /\ sgd_file \in SgdFiles
    /\ sgd_cache = [full |-> FALSE, value |-> EmptyDict]
    /\ sgd_calls = [t \in Threads |-> NoCall]
    /\ sgd_map = <<>>
    /\ pc = "serving"
    /\ data_dir = <<>> /\ request = <<>> /\ response = <<>>
    /\ ProtIdle
    /\ by_node = <<>>
    /\ membership = <<>> /\ token_sets = <<>> /\ layout = <<>>
    /\ ServicesIdle
    /\ UFIdle
    /\ GdfIdle

\* what a step on the mapping leaves alone
notSgd == <<pc, data_dir, request, protVars, by_node, membership, token_sets, layout, serviceVars, ufVars, gdfVars>>

\* the call of thread t finds the cached mapping
SgdHit(t) ==
    /\ sgd_calls[t].pc = "idle" /\ sgd_calls[t].calls < MaxCalls
    /\ sgd_cache.full
    /\ sgd_calls' = [sgd_calls EXCEPT ![t].returned = [raised |-> FALSE, mapping |-> sgd_cache.value],
                                      ![t].hit = TRUE, ![t].calls = @ + 1]
    /\ sgd_map' = sgd_cache.value
    /\ UNCHANGED <<sgd_file, sgd_cache, response, notSgd>>

\* the call of thread t finds the cache empty and enters the function
SgdMiss(t) ==
    /\ sgd_calls[t].pc = "idle" /\ sgd_calls[t].calls < MaxCalls
    /\ ~sgd_cache.full
    /\ sgd_calls' = [sgd_calls EXCEPT ![t].pc = "read"]
    /\ UNCHANGED <<sgd_file, sgd_cache, sgd_map, response, notSgd>>

\* thread t runs the body of the function on the file as it is
SgdRead(t) ==
    /\ sgd_calls[t].pc = "read"
    /\ sgd_calls' = [sgd_calls EXCEPT ![t].pc = "store", ![t].result = _load_sgd_sys_to_gene_map(sgd_file),
                                      ![t].read_from = sgd_file]
    /\ UNCHANGED <<sgd_file, sgd_cache, sgd_map, response, notSgd>>

\* the cache after the function returned outcome: an exception stores
\* nothing, a result is stored unless one was stored during the call
stored(cache, outcome) ==
    IF outcome.raised \/ cache.full THEN cache ELSE [full |-> TRUE, value |-> outcome.mapping]

\* the call of thread t returns
SgdStore(t) ==
    /\ sgd_calls[t].pc = "store"
    /\ sgd_cache' = stored(sgd_cache, sgd_calls[t].result)
    /\ sgd_calls' = [sgd_calls EXCEPT ![t].pc = "idle", ![t].returned = sgd_calls[t].result,
                                      ![t].hit = FALSE, ![t].calls = @ + 1]
    /\ sgd_map' = sgd_calls[t].result.mapping
    /\ UNCHANGED <<sgd_file, response, notSgd>>

\* the handler of thread t maps a token: sgd_map.get(tok.upper(), tok)
SgdLookup(t) ==
    /\ sgd_calls[t].pc = "idle" /\ sgd_calls[t].returned # <<>>
    /\ \E tok \in RawTokens :
            response' = Get(sgd_calls[t].returned.mapping, upper(tok), tok)
    /\ UNCHANGED <<sgd_file, sgd_cache, sgd_calls, sgd_map, notSgd>>

\* the file is replaced, removed or made unreadable
SgdFileChanges ==
    /\ \E f \in SgdFiles \ {sgd_file} : sgd_file' = f
    /\ UNCHANGED <<sgd_cache, sgd_calls, sgd_map, response, notSgd>>

NextSgd ==
    \/ \E t \in Threads : SgdHit(t)
    \/ \E t \in Threads : SgdMiss(t)
    \/ \E t \in Threads : SgdRead(t)
    \/ \E t \in Threads : SgdStore(t)
    \/ \E t \in Threads : SgdLookup(t)
    \/ SgdFileChanges

SpecSgd == InitSgd /\ [][NextSgd]_vars

\* no call has raised
SgdNeverRaises ==
    \A t \in Threads : sgd_calls[t].result # <<>> => ~sgd_calls[t].result.raised

\* a call that read a missing or unreadable file got the empty mapping
SgdEmptyWhenUnreadable ==
    \A t \in Threads :
        (sgd_calls[t].result # <<>>
            /\ (~sgd_calls[t].read_from.exists \/ ~sgd_calls[t].read_from.readable))
        => sgd_calls[t].result.mapping = EmptyDict

\* a call made after the first call returned got the cached mapping
SgdLaterCallsGetCache ==
    \A t \in Threads : sgd_calls[t].hit => sgd_calls[t].returned.mapping = sgd_cache.value

\* once a mapping is cached no step changes it
SgdCacheKept == sgd_cache.full => sgd_cache' = sgd_cache

\* C18: _load_sgd_sys_to_gene_map never raises, a missing or unreadable
\* file yields the empty mapping, and once the first call has returned
\* every later call returns the mapping of that first read, whatever
\* happens to the file and whichever handlers ran in between
C18_MappingReadOnce ==
    /\ [](SgdNeverRaises /\ SgdEmptyWhenUnreadable /\ SgdLaterCallsGetCache)
    /\ [][SgdCacheKept]_vars

\* a later call returned the cached mapping although the file on disk now
\* gives another one
C18_Witness ==
    /\ sgd_cache.full
    /\ \E t \in Threads :
        /\ sgd_calls[t].hit
        /\ sgd_calls[t].returned.mapping = sgd_cache.value
        /\ _load_sgd_sys_to_gene_map(sgd_file).mapping # sgd_cache.value

\* an unreadable file was read and the call returned the empty mapping
C18_UnreadableReached ==
    \E t \in Threads :
        /\ sgd_calls[t].returned # <<>> /\ ~sgd_calls[t].hit
        /\ sgd_calls[t].read_from.exists /\ ~sgd_calls[t].read_from.readable
        /\ sgd_calls[t].returned.mapping = EmptyDict

-----------------------------------------------------------------------------
(* networks.py: compute_spring_layout                                      *)
(*                                                                         *)
(* A float of the handler is kept as an integer count of 1/Unit, and an   *)
(* operation whose exact result is no such count is cut toward zero where  *)
(* the handler rounds to the nearest double.  Sums, differences, halvings  *)
(* of even counts and comparisons are exact; quotients and square roots   *)
(* are cut.                                                                *)

\* the counts of one: 1.0
Unit == 2 ^ 8

\* the float n.0 of an integer n
FX(n) == n * Unit

\* abs(a)
Abs(a) == IF a < 0 THEN 0 - a ELSE a

\* max(a, b)
Max(a, b) == IF a >= b THEN a ELSE b

\* a / b cut toward zero, for b > 0
quot(a, b) == IF a < 0 THEN 0 - ((0 - a) \div b) ELSE a \div b

\* the largest r with r * r <= n, found bit by bit from the bit given
RECURSIVE isqrt_bits(_, _, _)
isqrt_bits(n, r, bit) ==
    IF bit = 0 THEN r
    ELSE CHOOSE root \in {isqrt_bits(n, r_next, bit_next) :
                          r_next \in {IF (r + bit) * (r + bit) <= n THEN r + bit ELSE r},
                          bit_next \in {bit \div 2}} :
             TRUE

\* the integer square root of n >= 0
isqrt(n) == isqrt_bits(n, 0, 2 ^ 14)

\* the largest coordinate difference whose square the integers hold
Far == 2 ^ 14

\* math.hypot(dx, dy).  Beyond Far the larger difference stands for the
\* distance: the handler only compares it with min_dist, which is smaller.
hypot(dx, dy) ==
    IF Abs(dx) >= Far \/ Abs(dy) >= Far THEN Max(Abs(dx), Abs(dy))
    ELSE isqrt(dx * dx + dy * dy)

\* math.pi
math_pi == (355 * Unit) \div 113

\* the float of a request field (pydantic has made it a float or left None):
\* an int n is n.0, a float ip.fd is cut to its count
RECURSIVE pow10(_)
pow10(n) == IF n = 0 THEN 1 ELSE 10 * pow10(n - 1)

float_fx(x) ==
    IF x.t = "int" THEN FX(x.v)
    ELSE (IF x.neg THEN 0 - 1 ELSE 1)
         * (FX(x.ip) + (digits_value(x.fd) * Unit) \div pow10(Len(x.fd)))

\* float(x) of a value of a node's data: [ok, v]; a str that is no number
\* and None raise
try_float(x) ==
    IF x.t = "int" \/ x.t = "float" THEN [ok |-> TRUE, v |-> float_fx(x)]
    ELSE IF x.t = "str" /\ to_int(x.v).ok THEN [ok |-> TRUE, v |-> float_fx(to_int(x.v).v)]
    ELSE IF x.t = "str" /\ to_float(x.v).ok THEN [ok |-> TRUE, v |-> float_fx(to_float(x.v).v)]
    ELSE [ok |-> FALSE, v |-> 0]

\* 'None'
S_None == <<"N", "o", "n", "e">>

\* str(x) of a value that may be None
str_or_None(x) == IF x.t = "none" THEN S_None ELSE str(x)

\* 'radius'
S_radius == <<"r", "a", "d", "i", "u", "s">>

\* 'size'
S_size == <<"s", "i", "z", "e">>

\* a dict of the request, which may be None instead
PyDict(d) == [t |-> "dict", v |-> d]

\* G.add_node(n): a node already in the graph stays where it is
add_node(G, n) == IF n \in Range(G) THEN G ELSE Append(G, n)

\* G.add_edge(u, v): networkx adds the endpoints that are no nodes yet
add_edge(G, u, v) == add_node(add_node(G, u), v)

\* str(node.data.get("id"))
layout_node_id(data) == str_or_None(Get(data, S_id, PyNone))

\* for node in req.graph.nodes: ... G.add_node(node_id)
RECURSIVE graph_nodes(_, _)
graph_nodes(G, ns) ==
    IF ns = <<>> THEN G
    ELSE IF layout_node_id(ns[1]) = <<>> THEN graph_nodes(G, Tail(ns))
    ELSE graph_nodes(add_node(G, layout_node_id(ns[1])), Tail(ns))

\* for edge in req.graph.edges: ... G.add_edge(source_id, target_id, ...);
\* the weight is an attribute of the edge and leaves the node set alone
RECURSIVE graph_edges(_, _)
graph_edges(G, es) ==
    IF es = <<>> THEN G
    ELSE IF Get(es[1], S_source, PyNone).t = "none" \/ Get(es[1], S_target, PyNone).t = "none"
    THEN graph_edges(G, Tail(es))
    ELSE graph_edges(add_edge(G, str(Get(es[1], S_source, PyNone)),
                              str(Get(es[1], S_target, PyNone))), Tail(es))

\* the nodes of G, in the order they were added
layout_graph(req) == graph_edges(graph_nodes(<<>>, req.nodes), req.edges)

\* req.padding if req.padding is not None else 2.0
layout_pad(req) == IF req.padding.t = "none" THEN FX(2) ELSE float_fx(req.padding)

\* req.anti_overlap_iterations if ... is not None else 80
layout_max_iters(req) ==
    IF req.anti_overlap_iterations.t = "none" THEN 80 ELSE req.anti_overlap_iterations.v

\* (10.0, 10.0), the size of a node that rect_sizes does not name
default_size == <<FX(10), FX(10)>>

\* default_radius = 5.0
default_radius == FX(5)

\* rect_sizes: NodeSize has made width and height floats, float() keeps them
layout_rect_sizes(req) ==
    IF req.node_sizes.t = "none" \/ DOMAIN req.node_sizes.v = {} THEN EmptyDict
    ELSE [k \in DOMAIN req.node_sizes.v |->
            <<Max(0, float_fx(req.node_sizes.v[k].width)),
              Max(0, float_fx(req.node_sizes.v[k].height))>>]

\* rv of one node: float(node.data.get("radius", node.data.get("size", 5.0)))
\* or the default where float() raises
node_radius(data) ==
    IF try_float(Get(data, S_radius, Get(data, S_size, PyFloat(FALSE, 5, <<>>)))).ok
    THEN Max(0, try_float(Get(data, S_radius, Get(data, S_size, PyFloat(FALSE, 5, <<>>)))).v)
    ELSE default_radius

\* for node in req.graph.nodes: radii[node_id] = max(0.0, rv); a later node
\* of the same id overwrites
RECURSIVE radii_of_nodes(_, _)
radii_of_nodes(radii, ns) ==
    IF ns = <<>> THEN radii
    ELSE radii_of_nodes(Put(radii, layout_node_id(ns[1]), node_radius(ns[1])), Tail(ns))

\* radii
layout_radii(req) ==
    IF req.node_radii.t = "none" \/ DOMAIN req.node_radii.v = {}
    THEN radii_of_nodes(EmptyDict, req.nodes)
    ELSE [k \in DOMAIN req.node_radii.v |-> Max(0, float_fx(req.node_radii.v[k]))]

\* min(xs), max(xs) of a non-empty collection
MinOf(S) == CHOOSE m \in S : \A x \in S : m <= x

MaxOf(S) == CHOOSE m \in S : \A x \in S : m >= x

\* xs, ys
xs_of(pos) == {pos[n][1] : n \in DOMAIN pos}

ys_of(pos) == {pos[n][2] : n \in DOMAIN pos}

\* 1e6: the extent max(..., 1e-6) of a box side is one millionth
Million == 10 ^ 6

\* a side of the bounding box; every count is more than 1e-6, so only a
\* side of no extent is raised to 1e-6.  A raised side enters bbox_area as
\* 1.0 and is counted in `raised`.
bbox_side(lo, hi) == IF hi - lo = 0 THEN Unit ELSE hi - lo

raised_sides(pos) ==
    (IF MaxOf(xs_of(pos)) = MinOf(xs_of(pos)) THEN 1 ELSE 0)
    + (IF MaxOf(ys_of(pos)) = MinOf(ys_of(pos)) THEN 1 ELSE 0)

\* bbox_area, in squares of a count, times Million ^ raised_sides
bbox_area(pos) ==
    bbox_side(MinOf(xs_of(pos)), MaxOf(xs_of(pos))) * bbox_side(MinOf(ys_of(pos)), MaxOf(ys_of(pos)))

\* the area of the footprint of node n, in squares of a count
shape_area(n, rect_sizes, radii) ==
    IF DOMAIN rect_sizes # {}
    THEN Get(rect_sizes, n, default_size)[1] * Get(rect_sizes, n, default_size)[2]
    ELSE (math_pi * Get(radii, n, default_radius) * Get(radii, n, default_radius)) \div Unit

\* shapes_area = sum(... for n in pos)
RECURSIVE shapes_area(_, _, _)
shapes_area(ns, rect_sizes, radii) ==
    IF ns = <<>> THEN 0
    ELSE shape_area(ns[1], rect_sizes, radii) + shapes_area(Tail(ns), rect_sizes, radii)

\* the greatest common divisor of a >= 0 and b > 0
RECURSIVE gcd(_, _)
gcd(a, b) == IF a = 0 THEN b ELSE CHOOSE g \in {gcd(r, a) : r \in {b % a}} : TRUE

\* n / d in lowest terms, d > 0
lowest_terms(n, d) == [n |-> quot(n, gcd(Abs(n), d)), d |-> d \div gcd(Abs(n), d)]

\* a float of the request as a fraction n / d
fraction(x) ==
    IF x.t = "int" THEN [n |-> x.v, d |-> 1]
    ELSE lowest_terms((IF x.neg THEN 0 - 1 ELSE 1) * (x.ip * pow10(Len(x.fd)) + digits_value(x.fd)),
                      pow10(Len(x.fd)))

\* target_cov = req.spread_target_coverage if ... is not None else 0.12
target_cov(req) ==
    IF req.spread_target_coverage.t = "none" THEN lowest_terms(12, 100)
    ELSE fraction(req.spread_target_coverage)

\* v < Million ^ k
RECURSIVE below_millions(_, _)
below_millions(v, k) == IF k = 0 THEN v < 1 ELSE below_millions(v \div Million, k - 1)

\* current_cov > target_cov, for current_cov = area * Million ^ k / bbox
coverage_exceeds(area, bbox, k, t) ==
    IF t.n <= 0 THEN area > 0 \/ t.n < 0
    ELSE IF area = 0 THEN FALSE
    ELSE below_millions((t.n * bbox) \div (area * t.d), k)

\* target_cov < 1e-6
below_millionth(t) == t.n <= 0 \/ (t.n < t.d /\ t.n * Million < t.d)

\* sqrt(n / d) as a fraction num / den: n / d in lowest terms has n widened
\* by fours, as far as the integers hold it, before the root is cut
RECURSIVE sqrt_widened(_, _, _)
sqrt_widened(n, d, den) ==
    IF n \div d >= 2 ^ 20 \/ n > 2 ^ 28 THEN [num |-> isqrt(n \div d), den |-> den]
    ELSE CHOOSE root \in {sqrt_widened(n_wide, d, den_wide) :
                          n_wide \in {4 * n}, den_wide \in {2 * den}} :
             TRUE

sqrt_ratio(n, d) == sqrt_widened(lowest_terms(n, d).n, lowest_terms(n, d).d, 1)

\* scale_out = (current_cov / max(target_cov, 1e-6)) ** 0.5 as a fraction
\* times 1000 ^ thousands
scale_out(area, bbox, k, t) ==
    IF below_millionth(t)
    THEN [root |-> sqrt_ratio(area, bbox), thousands |-> k + 1]
    ELSE [root |-> sqrt_ratio(area * t.d, bbox * t.n), thousands |-> k]

\* (x - cx) * scale_out; a node on the centre line stays there
spread_by(d, s) == IF d = 0 THEN 0 ELSE quot(d * s.root.num * (1000 ^ s.thousands), s.root.den)

\* cx, cy
centre(pos) ==
    <<quot(MinOf(xs_of(pos)) + MaxOf(xs_of(pos)), 2), quot(MinOf(ys_of(pos)) + MaxOf(ys_of(pos)), 2)>>

\* pos[n] = (cx + (x - cx) * scale_out, cy + (y - cy) * scale_out) for n in pos
spread(pos, c, s) ==
    [n \in DOMAIN pos |-> <<c[1] + spread_by(pos[n][1] - c[1], s), c[2] + spread_by(pos[n][2] - c[2], s)>>]

\* the global pre-spread
pre_spread(pos, G, rect_sizes, radii, t) ==
    IF DOMAIN pos # {}
       /\ coverage_exceeds(shapes_area(G, rect_sizes, radii), bbox_area(pos), raised_sides(pos), t)
    THEN spread(pos, centre(pos),
                scale_out(shapes_area(G, rect_sizes, radii), bbox_area(pos), raised_sides(pos), t))
    ELSE pos

\* hash(str(n)) % 3: Python draws the hash of a str anew for each process;
\* the request carries the draw of the serving process
hash_mod3(req, n) == Get(req.hash, n, 0)

\* (hash(str(a)) % 3 - 1) or 1
nudge_dx(req, a) == IF hash_mod3(req, a) - 1 = 0 THEN FX(1) ELSE FX(hash_mod3(req, a) - 1)

\* (hash(str(b)) % 3 - 1) or -1
nudge_dy(req, b) == IF hash_mod3(req, b) - 1 = 0 THEN FX(0 - 1) ELSE FX(hash_mod3(req, b) - 1)

\* the locals pos and moved_any of the separation loop
sep_state(pos, moved_any) == [pos |-> pos, moved_any |-> moved_any]

\* half_w = (aw + bw) / 2.0 + pad, and half_h likewise, by axis
half_extent(rect_sizes, a, b, axis, pad) ==
    quot(Get(rect_sizes, a, default_size)[axis] + Get(rect_sizes, b, default_size)[axis], 2) + pad

\* overlap_x = half_w - abs(dx), and overlap_y likewise, by axis
rect_overlap(pos, rect_sizes, a, b, axis, pad) ==
    half_extent(rect_sizes, a, b, axis, pad) - Abs(pos[b][axis] - pos[a][axis])

\* sx = 1.0 if dx >= 0 else -1.0, and sy likewise
sign_of(d) == IF d >= 0 THEN 1 ELSE 0 - 1

\* ax -= sx * shift; bx += sx * shift (axis 1), or the same on y (axis 2)
shift_apart(pos, a, b, axis, shift) ==
    [pos EXCEPT ![a][axis] = @ - sign_of(pos[b][axis] - pos[a][axis]) * shift,
                ![b][axis] = @ + sign_of(pos[b][axis] - pos[a][axis]) * shift]

\* the rectangle branch for the pair a, b
separate_rects(st, rect_sizes, a, b, pad) ==
    IF rect_overlap(st.pos, rect_sizes, a, b, 1, pad) > 0
       /\ rect_overlap(st.pos, rect_sizes, a, b, 2, pad) > 0
    THEN IF rect_overlap(st.pos, rect_sizes, a, b, 1, pad) < rect_overlap(st.pos, rect_sizes, a, b, 2, pad)
         THEN sep_state(shift_apart(st.pos, a, b, 1,
                                    quot(rect_overlap(st.pos, rect_sizes, a, b, 1, pad), 2)), TRUE)
         ELSE sep_state(shift_apart(st.pos, a, b, 2,
                                    quot(rect_overlap(st.pos, rect_sizes, a, b, 2, pad), 2)), TRUE)
    ELSE st

\* dx, dy and dist of the circle branch: the nudge replaces a zero distance
circle_delta(req, pos, a, b) ==
    IF hypot(pos[b][1] - pos[a][1], pos[b][2] - pos[a][2]) = 0
    THEN <<nudge_dx(req, a), nudge_dy(req, b)>>
    ELSE <<pos[b][1] - pos[a][1], pos[b][2] - pos[a][2]>>

\* ux * overlap for ux = dx / dist, and uy * overlap likewise: the product
\* is taken before the quotient, so that it is cut once
along(d, dist, overlap) == quot(d * overlap, dist)

\* pos[a] = (ax - ux * overlap, ay - uy * overlap); pos[b] = (bx + ..., by + ...)
push_apart(pos, a, b, d, dist, overlap) ==
    [pos EXCEPT ![a] = <<@[1] - along(d[1], dist, overlap), @[2] - along(d[2], dist, overlap)>>,
                ![b] = <<@[1] + along(d[1], dist, overlap), @[2] + along(d[2], dist, overlap)>>]

\* min_dist = ra + rb + pad
min_dist(radii, a, b, pad) == Get(radii, a, default_radius) + Get(radii, b, default_radius) + pad

\* if dist < min_dist: overlap = (min_dist - dist) / 2.0, and the push
separate_at(st, radii, a, b, pad, d, dist) ==
    IF dist < min_dist(radii, a, b, pad)
    THEN sep_state(push_apart(st.pos, a, b, d, dist, quot(min_dist(radii, a, b, pad) - dist, 2)), TRUE)
    ELSE st

\* dist = math.hypot(dx, dy) of the difference d the branch settled on
separate_by(st, radii, a, b, pad, d) ==
    CHOOSE after \in {separate_at(st, radii, a, b, pad, d, dist) : dist \in {hypot(d[1], d[2])}} : TRUE

\* the circle branch for the pair a, b
separate_circles(req, st, radii, a, b, pad) ==
    CHOOSE after \in {separate_by(st, radii, a, b, pad, d) : d \in {circle_delta(req, st.pos, a, b)}} :
        TRUE

\* the body of the inner loop for the pair a, b
separate_pair(req, st, rect_sizes, radii, a, b, pad) ==
    IF DOMAIN rect_sizes # {} THEN separate_rects(st, rect_sizes, a, b, pad)
    ELSE separate_circles(req, st, radii, a, b, pad)

\* for i in range(len(node_ids)): for j in range(i + 1, len(node_ids)): ...
\* from the pair i, j on
RECURSIVE separate_from(_, _, _, _, _, _, _, _)
separate_from(req, st, ids, i, jj, rect_sizes, radii, pad) ==
    IF i > Len(ids) THEN st
    ELSE IF jj > Len(ids)
    THEN separate_from(req, st, ids, i + 1, i + 2, rect_sizes, radii, pad)
    ELSE CHOOSE after \in {separate_from(req, moved, ids, i, jj + 1, rect_sizes, radii, pad) :
                           moved \in {separate_pair(req, st, rect_sizes, radii, ids[i], ids[jj], pad)}} :
             TRUE

\* one pass of the separation loop: moved_any = False, then every pair
separation_pass(req, pos, ids, rect_sizes, radii, pad) ==
    separate_from(req, sep_state(pos, FALSE), ids, 1, 2, rect_sizes, radii, pad)

\* positions = {str(node): {"x": float(...), "y": float(...)} for node, coords in pos.items()}
positions_of(pos) == [n \in DOMAIN pos |-> [x |-> pos[n][1], y |-> pos[n][2]]]

(* The requests of the layout specification *)

\* nodes of a request: {'id': 'a'}, {'id': 'b', 'radius': 1},
\* {'id': 'c', 'size': 'big'}, {'label': 'x'} and {'id': ''}
LNode_a == S_id :> PyStr(<<"a">>)

LNode_b == (S_id :> PyStr(<<"b">>)) @@ (S_radius :> PyInt(1))

LNode_c == (S_id :> PyStr(<<"c">>)) @@ (S_size :> PyStr(<<"b", "i", "g">>))

LNode_no_id == S_label :> PyStr(<<"x">>)

LNode_empty_id == S_id :> PyStr(<<>>)

LayoutNodeLists ==
    {<<>>, <<LNode_a>>, <<LNode_a, LNode_b>>, <<LNode_a, LNode_b, LNode_c>>,
     <<LNode_a, LNode_no_id>>, <<LNode_empty_id, LNode_a>>}

\* edges of a request: a - b, a - z and an edge without target
LEdge(u, v) == (S_source :> PyStr(u)) @@ (S_target :> PyStr(v))

LEdge_no_target == S_source :> PyStr(<<"a">>)

LayoutEdgeLists ==
    {<<>>, <<LEdge(<<"a">>, <<"b">>)>>, <<LEdge(<<"a">>, <<"z">>)>>, <<LEdge_no_target>>}

\* the ids the requests can name
LayoutIds == {<<"a">>, <<"b">>, <<"c">>, <<"z">>, S_None, <<>>}

\* nodeSizes: 2 x 2 for every id, or a lone entry of negative height
NodeSize(w, h) == [width |-> w, height |-> h]

LayoutNodeSizes ==
    {PyNone,
     PyDict([n \in LayoutIds |-> NodeSize(PyInt(2), PyInt(2))]),
     PyDict(<<"a">> :> NodeSize(PyInt(2), PyInt(0 - 1)))}

\* node_radii: 1.5 for every id
LayoutNodeRadii == {PyNone, PyDict([n \in LayoutIds |-> PyFloat(FALSE, 1, <<"5">>)])}

\* the largest anti_overlap_iterations of a request
MaxPasses == 2

LayoutRequests ==
    [handler : {"compute_spring_layout"},
     nodes : LayoutNodeLists,
     edges : LayoutEdgeLists,
     node_sizes : LayoutNodeSizes,
     node_radii : LayoutNodeRadii,
     padding : {PyNone, PyInt(0)},
     anti_overlap_iterations : {PyNone} \cup {PyInt(n) : n \in (0 - 1) .. MaxPasses},
     spread_target_coverage : {PyNone, PyInt(1000)},
     hash : {[n \in LayoutIds |-> (Len(n) + s) % 3] : s \in 0 .. 2}]

\* what a placement algorithm of networkx can return for G: a position for
\* every node.  Four arrangements stand for the positions it may compute:
\* all nodes on one point, a column, a diagonal, and two nodes on one point
\* with the others on a diagonal.
Arrangements == {"point", "column", "diagonal", "pair"}

arranged(arrangement, i) ==
    IF arrangement = "point" THEN <<0, 0>>
    ELSE IF arrangement = "column" THEN <<0, FX(i - 1)>>
    ELSE IF arrangement = "diagonal" THEN <<FX(i - 1), FX(2 * (i - 1))>>
    ELSE (IF i <= 2 THEN <<0, 0>> ELSE <<FX(i - 2), FX(2 * (i - 2))>>)

placed(G, arrangement) ==
    [n \in Range(G) |-> arranged(arrangement, CHOOSE i \in DOMAIN G : G[i] = n)]

(* The handler as a state machine *)

notLayout == <<data_dir, request, sgd_map, protVars, by_node, membership, token_sets,
               sgdVars, serviceVars, ufVars, gdfVars>>

\* the locals before the handler has run: pos = None is the empty dict here
LayoutStart ==
    [G |-> <<>>, pos |-> EmptyDict, rect_sizes |-> EmptyDict, radii |-> EmptyDict,
     passes |-> 0, moved_any |-> FALSE]

InitLayout ==
    /\ data_dir = <<>>
    /\ request \in LayoutRequests
    /\ sgd_map = EmptyDict
    /\ response = <<>>
    /\ pc = "graph"
    /\ ProtIdle
    /\ by_node = <<>>
    /\ membership = <<>> /\ token_sets = <<>> /\ SgdIdle
    /\ layout = LayoutStart
    /\ ServicesIdle
    /\ UFIdle
    /\ GdfIdle

LayoutStep(next_pc, locals) ==
    /\ layout' = locals
    /\ pc' = next_pc
    /\ UNCHANGED <<response, notLayout>>

LayoutAnswer(r) ==
    /\ response' = r
    /\ pc' = "done"
    /\ UNCHANGED <<layout, notLayout>>

\* G = nx.Graph() and the two loops that fill it
LayoutBuildGraph ==
    /\ pc = "graph"
    /\ LayoutStep("forceatlas2", [layout EXCEPT !.G = layout_graph(request)])

\* if G.number_of_nodes() == 0: return {"positions": {}}
LayoutReturnEmpty ==
    /\ pc = "forceatlas2" /\ layout.G = <<>>
    /\ LayoutAnswer([status |-> 200, body |-> [positions |-> EmptyDict]])

\* pos = forceatlas2(G, ...), or forceatlas2(G) after a TypeError
ForceAtlas2Places ==
    /\ pc = "forceatlas2" /\ layout.G # <<>>
    /\ \E arrangement \in Arrangements :
         LayoutStep("sizes", [layout EXCEPT !.pos = placed(layout.G, arrangement)])

\* the installed networkx has no forceatlas2_layout
ForceAtlas2Missing ==
    /\ pc = "forceatlas2" /\ layout.G # <<>>
    /\ LayoutStep("kamada_kawai", layout)

\* forceatlas2 raised (after a TypeError, the second call raised): pos = None
ForceAtlas2Fails ==
    /\ pc = "forceatlas2" /\ layout.G # <<>>
    /\ LayoutStep("kamada_kawai", layout)

\* pos = nx.kamada_kawai_layout(G, ...)
KamadaKawaiPlaces ==
    /\ pc = "kamada_kawai"
    /\ \E arrangement \in Arrangements :
         LayoutStep("sizes", [layout EXCEPT !.pos = placed(layout.G, arrangement)])

\* kamada_kawai_layout raised (it needs scipy): pos = None
KamadaKawaiFails ==
    /\ pc = "kamada_kawai"
    /\ LayoutStep("spring_layout", layout)

\* pos = nx.spring_layout(G, ...)
SpringPlaces ==
    /\ pc = "spring_layout"
    /\ \E arrangement \in Arrangements :
         LayoutStep("sizes", [layout EXCEPT !.pos = placed(layout.G, arrangement)])

\* spring_layout raised; except Exception turns it into a 500
SpringFails ==
    /\ pc = "spring_layout"
    /\ LayoutAnswer(error_response(HTTPException(500, "Error computing layout")))

\* rect_sizes and radii
LayoutSizes ==
    /\ pc = "sizes"
    /\ LayoutStep("pre_spread", [layout EXCEPT !.rect_sizes = layout_rect_sizes(request),
                                               !.radii = layout_radii(request)])

\* the global pre-spread
LayoutPreSpread ==
    /\ pc = "pre_spread"
    /\ LayoutStep("separate",
                  [layout EXCEPT !.pos = pre_spread(layout.pos, layout.G, layout.rect_sizes,
                                                    layout.radii, target_cov(request))])

\* a loop that lacks "if not moved_any: break"
more_passes_without_break(locals, req) ==
    locals.passes < Max(0, layout_max_iters(req))

\* the separation loop goes on: range(max(0, max_iters)) has a next value
\* and no pass has ended with moved_any False
more_passes(locals, req) ==
    /\ locals.passes < Max(0, layout_max_iters(req))
    /\ (locals.passes = 0 \/ locals.moved_any)

\* one pass of the separation loop
after_pass(locals, st) ==
    [locals EXCEPT !.pos = st.pos, !.moved_any = st.moved_any, !.passes = @ + 1]

LayoutPass ==
    /\ pc = "separate"
    /\ more_passes(layout, request)
    /\ \E st \in {separation_pass(request, layout.pos, layout.G, layout.rect_sizes,
                                  layout.radii, layout_pad(request))} :
         LayoutStep("separate", after_pass(layout, st))

\* return {"positions": positions}
LayoutReturn ==
    /\ pc = "separate"
    /\ ~more_passes(layout, request)
    /\ LayoutAnswer([status |-> 200, body |-> [positions |-> positions_of(layout.pos)]])

NextLayout ==
    \/ LayoutBuildGraph
    \/ LayoutReturnEmpty
    \/ ForceAtlas2Places
    \/ ForceAtlas2Missing
    \/ ForceAtlas2Fails
    \/ KamadaKawaiPlaces
    \/ KamadaKawaiFails
    \/ SpringPlaces
    \/ SpringFails
    \/ LayoutSizes
    \/ LayoutPreSpread
    \/ LayoutPass
    \/ LayoutReturn

SpecLayout == InitLayout /\ [][NextLayout]_vars

(* Claims on compute_spring_layout *)

\* the handler has returned a position set
LayoutReturned ==
    pc = "done" /\ request.handler = "compute_spring_layout" /\ response.status = 200

\* the ids of the nodes of the request, as the handler reads them: a node
\* without an id is read as 'None', a node of empty id is passed over
RequestNodeIds(req) == {layout_node_id(req.nodes[i]) : i \in DOMAIN req.nodes} \ {<<>>}

\* the ids the edges of the request name as source or target
RequestEdgeEnds(req) ==
    UNION {{str(Get(req.edges[i], S_source, PyNone)), str(Get(req.edges[i], S_target, PyNone))} :
           i \in {k \in DOMAIN req.edges : Get(req.edges[k], S_source, PyNone).t # "none"
                                          /\ Get(req.edges[k], S_target, PyNone).t # "none"}}

\* C19: the positions compute_spring_layout returns have exactly the ids of
\* the nodes of the request as keys, whatever edges the request contains;
\* for a request without nodes it is the empty set, returned without error.
C19_PositionsAreNodeIds ==
    /\ LayoutReturned => DOMAIN response.body.positions = RequestNodeIds(request)
    /\ (pc = "done" /\ request.handler = "compute_spring_layout" /\ request.nodes = <<>>)
         => (response.status = 200 /\ response.body.positions = EmptyDict)

\* C19 holds of the requests whose edges join nodes of the request
C19_HoldsForEdgesBetweenNodes ==
    (LayoutReturned /\ RequestEdgeEnds(request) \subseteq RequestNodeIds(request))
        => DOMAIN response.body.positions = RequestNodeIds(request)

\* what is returned in general: the nodes and the ends of the edges
C19_PositionsAreNodesAndEdgeEnds ==
    LayoutReturned
        => DOMAIN response.body.positions = RequestNodeIds(request) \cup RequestEdgeEnds(request)

\* the request [{'id': 'a'}] with the edge a - z got a position for z
C19_EdgeEndPositioned ==
    /\ LayoutReturned
    /\ request.nodes = <<LNode_a>> /\ request.edges = <<LEdge(<<"a">>, <<"z">>)>>
    /\ DOMAIN response.body.positions = {<<"a">>, <<"z">>}

\* a request without nodes got the positions of the ends of its edge
C19_NoNodesPositioned ==
    /\ LayoutReturned
    /\ request.nodes = <<>>
    /\ DOMAIN response.body.positions = {<<"a">>, <<"b">>}

\* the footprints of a and b overlap in the positions P, by the test of the
\* handler: rectangles where the request gave sizes, circles otherwise
FootprintsOverlap(req, P, a, b) ==
    IF DOMAIN layout_rect_sizes(req) # {}
    THEN /\ Abs(P[b].x - P[a].x) < half_extent(layout_rect_sizes(req), a, b, 1, layout_pad(req))
         /\ Abs(P[b].y - P[a].y) < half_extent(layout_rect_sizes(req), a, b, 2, layout_pad(req))
    ELSE /\ Abs(P[b].x - P[a].x) < Far /\ Abs(P[b].y - P[a].y) < Far
         /\ (P[b].x - P[a].x) * (P[b].x - P[a].x) + (P[b].y - P[a].y) * (P[b].y - P[a].y)
              < min_dist(layout_radii(req), a, b, layout_pad(req))
                * min_dist(layout_radii(req), a, b, layout_pad(req))

\* every footprint the handler uses for a node of the request is positive
PositiveFootprints(req) ==
    \A n \in RequestNodeIds(req) :
        IF DOMAIN layout_rect_sizes(req) # {}
        THEN Get(layout_rect_sizes(req), n, default_size)[1] > 0
             /\ Get(layout_rect_sizes(req), n, default_size)[2] > 0
        ELSE Get(layout_radii(req), n, default_radius) > 0

\* the case of C20: no edges, positive footprints, a budget of one pass or more
SeparatedCase ==
    /\ LayoutReturned
    /\ request.edges = <<>>
    /\ PositiveFootprints(request)
    /\ layout_max_iters(request) > 0

NoOverlap(req, P) ==
    \A a \in DOMAIN P : \A b \in DOMAIN P : a # b => ~FootprintsOverlap(req, P, a, b)

\* C20: for a graph without edges, positive footprint sizes and a nonzero
\* anti-overlap budget, every node has a position and no two footprints
\* overlap in the positions returned.
C20_NoOverlapInReturnedPositions ==
    SeparatedCase
        => /\ RequestNodeIds(request) \subseteq DOMAIN response.body.positions
           /\ NoOverlap(request, response.body.positions)

\* C20 holds where the loop ended on a pass that moved nothing
C20_HoldsAfterAStillPass ==
    (SeparatedCase /\ layout.passes > 0 /\ ~layout.moved_any)
        => NoOverlap(request, response.body.positions)

\* every node has a position in the case of C20
C20_EveryNodePositioned ==
    SeparatedCase => RequestNodeIds(request) \subseteq DOMAIN response.body.positions

\* three 2 x 2 rectangles, padding 0, one pass, placed on (0, 0), (0, 0) and
\* (1, 2): a is returned on (0, -1) and b on (0, 0.5)
C20_OverlapReturned ==
    /\ SeparatedCase
    /\ request.nodes = <<LNode_a, LNode_b, LNode_c>>
    /\ request.anti_overlap_iterations = PyInt(1)
    /\ request.padding = PyInt(0)
    /\ DOMAIN layout_rect_sizes(request) = LayoutIds
    /\ response.body.positions[<<"a">>] = [x |-> 0, y |-> 0 - FX(1)]
    /\ response.body.positions[<<"b">>] = [x |-> 0, y |-> FX(1) \div 2]
    /\ response.body.positions[<<"c">>] = [x |-> FX(1), y |-> FX(5) \div 2]
    /\ FootprintsOverlap(request, response.body.positions, <<"a">>, <<"b">>)

(* The separation loop of compute_spring_layout *)

\* the requests the loop is followed on to its end: no node or three nodes,
\* no edge or the edge a - z, sizes for every id or none, the default padding
\* and one outcome of hash
LoopRequests ==
    {r \in LayoutRequests :
        /\ r.nodes \in {<<>>, <<LNode_a, LNode_b, LNode_c>>}
        /\ r.edges \in {<<>>, <<LEdge(<<"a">>, <<"z">>)>>}
        /\ r.node_sizes.t = "dict" => DOMAIN r.node_sizes.v = LayoutIds
        /\ r.padding = PyNone
        /\ r.hash[<<>>] = 0}

InitLayoutLoop == InitLayout /\ request \in LoopRequests

\* the handler runs its statements one after the other until it returns:
\* a step that can be taken is taken
SpecLayoutFair == InitLayoutLoop /\ [][NextLayout]_vars /\ WF_vars(NextLayout)

\* range(max(0, max_iters)): the number of passes the loop may run
PassBudget(req) == Max(0, layout_max_iters(req))

\* the pair a, b was moved, or counted as moved, by the body of the inner loop
PairMoved(st, after) == after.pos # st.pos \/ (~st.moved_any /\ after.moved_any)

\* from the pair i, jj on, the pass that starts in st moves a pair only if
\* its footprints overlap when the pair is examined
RECURSIVE MovesOnlyOverlapping(_, _, _, _, _, _, _, _)
MovesOnlyOverlapping(req, st, ids, i, jj, rect_sizes, radii, pad) ==
    IF i > Len(ids) THEN TRUE
    ELSE IF jj > Len(ids)
    THEN MovesOnlyOverlapping(req, st, ids, i + 1, i + 2, rect_sizes, radii, pad)
    ELSE \A moved \in {separate_pair(req, st, rect_sizes, radii, ids[i], ids[jj], pad)} :
             /\ PairMoved(st, moved) => FootprintsOverlap(req, positions_of(st.pos), ids[i], ids[jj])
             /\ MovesOnlyOverlapping(req, moved, ids, i, jj + 1, rect_sizes, radii, pad)

\* the loop never runs more passes than its budget
PassesWithinBudget ==
    request.handler = "compute_spring_layout" => layout.passes <= PassBudget(request)

\* the pass that would start in the current positions moves only pairs
\* whose footprints overlap
NextPassMovesOnlyOverlapping ==
    (pc = "separate" /\ request.handler = "compute_spring_layout")
        => MovesOnlyOverlapping(request, sep_state(layout.pos, FALSE), layout.G, 1, 2,
                                layout.rect_sizes, layout.radii, layout_pad(request))

\* after a pass that moved nothing no further pass runs
StopsAfterStillPass ==
    (pc = "separate" /\ layout.passes > 0 /\ ~layout.moved_any)
        => (pc' = "done" /\ layout' = layout)

\* with a budget of zero or less the positions are returned as they stood
\* before the loop
NoBudgetNoChange ==
    (pc = "separate" /\ PassBudget(request) = 0)
        => (pc' = "done" /\ response'.body.positions = positions_of(layout.pos))

\* C21: the anti-overlap loop terminates; it runs at most
\* anti_overlap_iterations passes (none when that is zero or negative, the
\* positions staying as they were), it stops after the first pass that moved
\* no pair, and a pass moves a pair only if the footprints of the pair
\* overlapped when it was examined.
C21_SeparationLoopTerminates ==
    /\ <>(pc = "done")
    /\ [](PassesWithinBudget /\ NextPassMovesOnlyOverlapping)
    /\ [][StopsAfterStillPass /\ NoBudgetNoChange]_vars

\* the loop stopped on a pass that moved nothing, with budget left
C21_StoppedEarly ==
    /\ LayoutReturned
    /\ layout.passes > 0 /\ ~layout.moved_any
    /\ layout.passes < PassBudget(request)

\* the loop used its whole budget, the last pass still moving a pair
C21_BudgetUsedUp ==
    /\ LayoutReturned
    /\ layout.passes = PassBudget(request) /\ layout.passes > 0 /\ layout.moved_any

\* a request with a negative budget was answered without a pass
C21_NegativeBudgetReturned ==
    /\ LayoutReturned
    /\ layout_max_iters(request) < 0 /\ layout.passes = 0
    /\ Cardinality(DOMAIN layout.pos) > 1


\* ---------------------------------------------------------------------------
\* The order of the placement algorithms and what becomes of their failures
\* ---------------------------------------------------------------------------

\* the handler has laid out a graph with nodes and has answered
NonEmptyGraphAnswered ==
    pc = "done" /\ request.handler = "compute_spring_layout" /\ layout.G # <<>>

\* Kamada-Kawai is tried only after ForceAtlas2 was missing or raised, the
\* spring embedder only after Kamada-Kawai raised, and each of them only
\* while pos is still None
TriedInOrder ==
    /\ pc' = "kamada_kawai" => (pc = "forceatlas2" /\ layout'.pos = EmptyDict)
    /\ pc' = "spring_layout" => (pc = "kamada_kawai" /\ layout'.pos = EmptyDict)
    /\ pc = "forceatlas2" => pc' \in {"sizes", "kamada_kawai", "done"}
    /\ pc = "kamada_kawai" => pc' \in {"sizes", "spring_layout"}
    /\ pc = "spring_layout" => pc' \in {"sizes", "done"}

\* the part of C22 that holds: the fixed order of the three algorithms
C22_PlacementOrder == [][TriedInOrder]_vars

\* the part of C22 that holds: a failure of ForceAtlas2 or of Kamada-Kawai is
\* not answered with an error, the next algorithm is tried
C22_EarlierFailuresFallBack ==
    [][(pc \in {"forceatlas2", "kamada_kawai"} /\ layout.G # <<>>) => pc' # "done"]_vars

\* C22: the placement algorithms are tried in the order ForceAtlas2,
\* Kamada-Kawai, spring embedder, and no failure of one of them reaches the
\* caller: a request with a non-empty graph ends with a position for every
\* node of the graph and never with an error response.
C22_FailureNeverPropagated ==
    NonEmptyGraphAnswered
        => /\ response.status = 200
           /\ DOMAIN response.body.positions = DOMAIN layout.pos
           /\ DOMAIN layout.pos = {layout.G[i] : i \in DOMAIN layout.G}

\* the spring embedder raised after the other two gave no positions, and the
\* request was answered with the error
C22_SpringFailureAnswered ==
    /\ NonEmptyGraphAnswered
    /\ response = error_response(HTTPException(500, "Error computing layout"))
    /\ layout.pos = EmptyDict


\* ---------------------------------------------------------------------------
\* UniProtCache (app/uniprot_client.py)
\* ---------------------------------------------------------------------------

\* what a step of the UniProt client or of the favorites routes leaves alone
notServices == <<sgd_map, ufVars, gdfVars, data_dir, request, response, protVars, by_node,
                 membership, token_sets, sgdVars, layout>>

\* what a step of the UniProt client leaves alone
notUniProt == <<notServices, favVars>>

\* None
None == PyNone

\* ProteinFeatureData(protein=..., sequence_length=..., features=..., error=...)
ProteinFeatureData(protein, sequence_length, features, error) ==
    [protein |-> protein, sequence_length |-> sequence_length, features |-> features,
     error |-> error]

\* the protein ids of the calls
ProteinIds == {"YAL001C", "YAL002W"}

\* the sequence lengths UniProt can report
SequenceLengths == {100, 200}

\* the data a caller stores for an id
CacheData(protein_id) ==
    {ProteinFeatureData(protein_id, n, <<>>, None) : n \in SequenceLengths}

\* the largest ttl_hours a cache is built with
MaxTtl == 2

\* the hours the clock runs through
MaxHours == 4

\* del self._cache[protein_id]
del(d, k) == [x \in (DOMAIN d) \ {k} |-> d[x]]

\* a comparison that keeps an entry whose age is the TTL
not_older_than_ttl(timestamp, t, ttl) == t - timestamp <= ttl

\* datetime.now() - timestamp < self._ttl
not_expired(timestamp, t, ttl) == t - timestamp < ttl

\* UniProtCache.get at time t: what it returns and the dict it leaves
cache_get(cache, ttl, t, protein_id) ==
    IF protein_id \in DOMAIN cache
    THEN IF not_expired(cache[protein_id][1], t, ttl)
         THEN [result |-> cache[protein_id][2], cache |-> cache]
         ELSE [result |-> None, cache |-> del(cache, protein_id)]
    ELSE [result |-> None, cache |-> cache]

\* UniProtCache.set at time t: the dict it leaves
cache_set(cache, t, protein_id, data) == Put(cache, protein_id, <<t, data>>)

\* cache = UniProtCache(ttl_hours=...)
InitCache ==
    /\ _cache = EmptyDict
    /\ _ttl \in 0 .. MaxTtl
    /\ now = 0
    /\ cache_call = [op |-> "init"]
    /\ last_set = EmptyDict
    /\ _client = FALSE /\ tasks = <<>>
    /\ FavoritesIdle
    /\ pc = "cache"
    /\ sgd_map = <<>>
    /\ data_dir = <<>> /\ request = <<>> /\ response = <<>>
    /\ ProtIdle
    /\ by_node = <<>>
    /\ membership = <<>> /\ token_sets = <<>> /\ SgdIdle /\ layout = <<>>
    /\ UFIdle
    /\ GdfIdle

\* cache.get(protein_id)
CacheGet ==
    /\ pc = "cache"
    /\ \E protein_id \in ProteinIds :
         \E got \in {cache_get(_cache, _ttl, now, protein_id)} :
            /\ _cache' = got.cache
            /\ cache_call' = [op |-> "get", protein_id |-> protein_id, result |-> got.result,
                              at |-> now]
    /\ UNCHANGED <<pc, _ttl, now, last_set, clientVars, notUniProt>>

\* cache.set(protein_id, data)
CacheSet ==
    /\ pc = "cache"
    /\ \E protein_id \in ProteinIds :
         \E data \in CacheData(protein_id) :
            /\ _cache' = cache_set(_cache, now, protein_id, data)
            /\ cache_call' = [op |-> "set", protein_id |-> protein_id, data |-> data, at |-> now]
            /\ last_set' = Put(last_set, protein_id, [at |-> now, data |-> data])
    /\ UNCHANGED <<pc, _ttl, now, clientVars, notUniProt>>

\* an hour passes
CacheHourPasses ==
    /\ pc = "cache"
    /\ now < MaxHours
    /\ now' = now + 1
    /\ UNCHANGED <<pc, _cache, _ttl, cache_call, last_set, clientVars, notUniProt>>

NextCache ==
    \/ CacheGet
    \/ CacheSet
    \/ CacheHourPasses

SpecCache == InitCache /\ [][NextCache]_vars

\* the last set of protein_id happened less than the TTL ago
SetWithinTtl(protein_id) ==
    protein_id \in DOMAIN last_set /\ now - last_set[protein_id].at < _ttl

\* the entries of the ids other than protein_id are what they were
OtherEntriesKept(protein_id) ==
    \A other \in ProteinIds \ {protein_id} :
        /\ other \in DOMAIN _cache' <=> other \in DOMAIN _cache
        /\ other \in DOMAIN _cache => _cache'[other] = _cache[other]

\* the step is the call of get that cache_call' records
GetReturned ==
    now' = now /\ cache_call'.op = "get"

\* the step is the call of set that cache_call' records
SetReturned ==
    now' = now /\ cache_call'.op = "set" /\ last_set' # last_set

\* what C23 says of a call of get
GetAnswersLastSet ==
    GetReturned
        => /\ SetWithinTtl(cache_call'.protein_id)
                => cache_call'.result = last_set[cache_call'.protein_id].data
           /\ ~SetWithinTtl(cache_call'.protein_id)
                => /\ cache_call'.result = None
                   /\ cache_call'.protein_id \notin DOMAIN _cache'
           /\ OtherEntriesKept(cache_call'.protein_id)

\* what C23 says of a call of set
SetKeepsOtherIds ==
    SetReturned => OtherEntriesKept(cache_call'.protein_id)

\* C23: get(id) returns the data of the most recent set(id) if and only if
\* that set happened less than the TTL ago; otherwise it returns None, an
\* expired entry is gone after the get that found it, and neither get nor set
\* changes the entry of another id.
C23_GetReturnsLastSetWithinTtl == [][GetAnswersLastSet /\ SetKeepsOtherIds]_vars

\* a get found the entry of an id expired and removed it, the entry of the
\* other id staying in the cache
C23_ExpiredEntryRemoved ==
    /\ pc = "cache" /\ cache_call.op = "get"
    /\ cache_call.result = None
    /\ cache_call.protein_id \in DOMAIN last_set
    /\ cache_call.protein_id \notin DOMAIN _cache
    /\ DOMAIN _cache # {}
    /\ _ttl > 0


\* ---------------------------------------------------------------------------
\* UniProtClient.fetch_protein_features (app/uniprot_client.py)
\* ---------------------------------------------------------------------------

\* _uniprot_cache = UniProtCache(ttl_hours=24)
GlobalTtlHours == 24

\* the hours that pass in one step of the clock of the client: half a TTL
HalfTtl == GlobalTtlHours \div 2

\* an error message: a str, written as one string
Message(text) == [t |-> "str", v |-> text]

\* ProteinFeature(type=..., description=..., start=..., end=...)
ProteinFeature(type, description, start, end) ==
    [type |-> type, description |-> description, start |-> start, end |-> end]

ALLOWED_FEATURE_TYPES == {"Domain", "Repeat", "Region", "Transit peptide", "Chain"}

\* a or b
py_or(a, b) == IF truthy(a) THEN a ELSE b

\* int(x) for the position a location carries: [ok, v]
int_of(x) ==
    IF x.t = "int" THEN [ok |-> TRUE, v |-> x.v]
    ELSE IF x.t = "str" /\ to_int(x.v).ok THEN [ok |-> TRUE, v |-> to_int(x.v).v.v]
    ELSE [ok |-> FALSE, v |-> 0]

\* start_loc.get("value") or start_loc.get("position"), and the same of end
position_of(location, side) ==
    py_or(Get(Get(location, side, EmptyDict), "value", None),
          Get(Get(location, side, EmptyDict), "position", None))

\* the body of the loop over raw_features for one feature: the features so
\* far, with ok = FALSE when int() raised
parse_feature(feature, features) ==
    IF Get(feature, "type", "Unknown") \notin ALLOWED_FEATURE_TYPES THEN [ok |-> TRUE, features |-> features]
    ELSE IF position_of(Get(feature, "location", EmptyDict), "start") = None
            \/ position_of(Get(feature, "location", EmptyDict), "end") = None
    THEN [ok |-> TRUE, features |-> features]
    ELSE IF ~int_of(position_of(Get(feature, "location", EmptyDict), "start")).ok
            \/ ~int_of(position_of(Get(feature, "location", EmptyDict), "end")).ok
    THEN [ok |-> FALSE, features |-> features]
    ELSE [ok |-> TRUE,
          features |-> Append(features,
              ProteinFeature(Get(feature, "type", "Unknown"),
                             Get(feature, "description", Get(feature, "type", "Unknown")),
                             int_of(position_of(Get(feature, "location", EmptyDict), "start")).v,
                             int_of(position_of(Get(feature, "location", EmptyDict), "end")).v))]

\* for feature in raw_features: ...
RECURSIVE parse_features(_, _)
parse_features(raw_features, features) ==
    IF raw_features = <<>> THEN [ok |-> TRUE, features |-> features]
    ELSE IF ~parse_feature(raw_features[1], features).ok THEN [ok |-> FALSE, features |-> features]
    ELSE parse_features(Tail(raw_features), parse_feature(raw_features[1], features).features)

\* UniProtClient._parse_uniprot_response.  The message of the except branch
\* stands without the text of the exception.
_parse_uniprot_response(protein_id, entry) ==
    IF parse_features(Get(entry, "features", <<>>), <<>>).ok
    THEN ProteinFeatureData(protein_id,
                            Get(Get(entry, "sequence", EmptyDict), "length", None),
                            parse_features(Get(entry, "features", <<>>), <<>>).features,
                            None)
    ELSE ProteinFeatureData(protein_id, None, <<>>, Message("Error parsing UniProt data"))

\* the entry returned while self._client is None
client_not_initialized(protein_id) ==
    ProteinFeatureData(protein_id, None, <<>>, Message("HTTP client not initialized"))

\* the entry returned after the loop over the queries
not_found(protein_id) ==
    ProteinFeatureData(protein_id, None, <<>>, Message("Protein not found in UniProt"))

\* the list queries, each f-string as the sequence of its parts
queries(protein_id, organism_id) ==
    <<<<"gene:", protein_id, " AND organism_id:", organism_id>>,
      <<"accession:", protein_id>>,
      <<protein_id, " AND organism_id:", organism_id>>>>

\* the default of the parameter organism_id
default_organism_id == "559292"

\* a feature of a UniProt entry
UniProtFeature(type, start, end) ==
    ("type" :> type) @@ ("description" :> "Protein kinase")
    @@ ("location" :> (("start" :> ("value" :> start)) @@ ("end" :> ("value" :> end))))

\* entries UniProt can return: one with a Domain and a Helix, one whose
\* Domain starts at a position that is no number, one without a sequence
UniProtEntries ==
    {("sequence" :> ("length" :> PyInt(100)))
        @@ ("features" :> <<UniProtFeature("Domain", PyInt(1), PyInt(50)),
                            UniProtFeature("Helix", PyInt(5), PyInt(9))>>),
     ("sequence" :> ("length" :> PyInt(100)))
        @@ ("features" :> <<UniProtFeature("Domain", PyStr(<<"x">>), PyInt(50))>>),
     "features" :> <<>>}

\* what awaiting self._client.get(url, params=params) can end with: a response
\* (its json None when response.json() raises), a timeout, another exception
Response(status_code, json) == [kind |-> "response", status_code |-> status_code, json |-> json]

Replies ==
    {Response(200, "results" :> <<entry>>) : entry \in UniProtEntries}
    \cup {Response(200, "results" :> <<>>), Response(200, EmptyDict), Response(200, None),
          Response(429, None), Response(500, None), Response(404, None),
          [kind |-> "TimeoutException"], [kind |-> "Exception"]}

\* the reply is a 200 response that has results
has_results(reply) ==
    /\ reply.kind = "response" /\ reply.status_code = 200
    /\ reply.json # None
    /\ "results" \in DOMAIN reply.json /\ reply.json["results"] # <<>>

\* the locals of a call of fetch_protein_features, with two histories: the
\* queries it has sent and, of each reply it has received, whether it was a
\* 200 response that has results
new_task(protein_id) ==
    [protein_id |-> protein_id, pc |-> "start", attempt |-> 0, result |-> None,
     raised |-> FALSE, sent |-> <<>>, replies |-> <<>>]

\* a call with the cache and the history of set it leaves
fetch_state(task, cache, hist) == [task |-> task, cache |-> cache, last_set |-> hist]

\* return result
fetch_return(task, result) == [task EXCEPT !.pc = "done", !.result = result]

\* _uniprot_cache.set(protein_id, result); return result
fetch_store_and_return(task, cache, hist, t, result) ==
    fetch_state(fetch_return(task, result),
                cache_set(cache, t, task.protein_id, result),
                Put(hist, task.protein_id, [at |-> t, data |-> result]))

\* a loop after which the entry of a protein that was not found is returned
\* and not stored
fetch_continue_unstored(task, cache, hist, t) ==
    IF task.attempt + 1 < Len(queries(task.protein_id, default_organism_id))
    THEN fetch_state([task EXCEPT !.attempt = @ + 1, !.pc = "request",
                                  !.sent = Append(@, queries(task.protein_id, default_organism_id)[task.attempt + 2])],
                     cache, hist)
    ELSE fetch_state(fetch_return(task, not_found(task.protein_id)), cache, hist)

\* the loop reaches its next query and sends it, or ends: the entry of a
\* protein that was not found is stored and returned
fetch_continue(task, cache, hist, t) ==
    IF task.attempt + 1 < Len(queries(task.protein_id, default_organism_id))
    THEN fetch_state([task EXCEPT !.attempt = @ + 1, !.pc = "request",
                                  !.sent = Append(@, queries(task.protein_id, default_organism_id)[task.attempt + 2])],
                     cache, hist)
    ELSE fetch_store_and_return(task, cache, hist, t, not_found(task.protein_id))

\* the call up to its first await: the cache lookup, the check of
\* self._client, and the first query sent
fetch_start(task, client, cache, hist, ttl, t) ==
    IF cache_get(cache, ttl, t, task.protein_id).result # None
    THEN fetch_state(fetch_return(task, cache_get(cache, ttl, t, task.protein_id).result),
                     cache_get(cache, ttl, t, task.protein_id).cache, hist)
    ELSE IF ~client
    THEN fetch_state(fetch_return(task, client_not_initialized(task.protein_id)),
                     cache_get(cache, ttl, t, task.protein_id).cache, hist)
    ELSE fetch_state([task EXCEPT !.pc = "request",
                                  !.sent = <<queries(task.protein_id, default_organism_id)[1]>>],
                     cache_get(cache, ttl, t, task.protein_id).cache, hist)

\* the call from the end of an await of self._client.get to its next await
\* or its return
fetch_reply(task, reply, cache, hist, t) ==
    IF reply.kind # "response" THEN fetch_continue(task, cache, hist, t)
    ELSE IF reply.status_code = 200
    THEN IF reply.json = None THEN fetch_continue(task, cache, hist, t)
         ELSE IF Get(reply.json, "results", <<>>) # <<>>
         THEN fetch_store_and_return(task, cache, hist, t,
                  _parse_uniprot_response(task.protein_id, Get(reply.json, "results", <<>>)[1]))
         ELSE fetch_continue(task, cache, hist, t)
    ELSE IF reply.status_code = 429 THEN fetch_state([task EXCEPT !.pc = "sleep"], cache, hist)
    ELSE fetch_continue(task, cache, hist, t)

\* the most calls of fetch_protein_features made one after the other
MaxFetches == 2

\* a client, inside "async with" or not, and the cache of the module
InitFetch ==
    /\ _cache = EmptyDict
    /\ _ttl = GlobalTtlHours
    /\ now = 0
    /\ cache_call = <<>>
    /\ last_set = EmptyDict
    /\ _client \in BOOLEAN
    /\ tasks = <<>>
    /\ FavoritesIdle
    /\ pc = "fetch"
    /\ sgd_map = <<>>
    /\ data_dir = <<>> /\ request = <<>> /\ response = <<>>
    /\ ProtIdle
    /\ by_node = <<>>
    /\ membership = <<>> /\ token_sets = <<>> /\ SgdIdle /\ layout = <<>>
    /\ UFIdle
    /\ GdfIdle

\* the task i takes the state st
TaskStep(i, st) ==
    /\ tasks' = [tasks EXCEPT ![i] = st.task]
    /\ _cache' = st.cache
    /\ last_set' = st.last_set
    /\ UNCHANGED <<pc, _ttl, now, cache_call, _client, notUniProt>>

\* await client.fetch_protein_features(protein_id), once the call before it
\* has returned
FetchCall ==
    /\ pc = "fetch"
    /\ Len(tasks) < MaxFetches
    /\ \A i \in DOMAIN tasks : tasks[i].pc = "done"
    /\ \E protein_id \in ProteinIds :
         \E st \in {fetch_start(new_task(protein_id), _client, _cache, last_set, _ttl, now)} :
            /\ tasks' = Append(tasks, st.task)
            /\ _cache' = st.cache
            /\ last_set' = st.last_set
    /\ UNCHANGED <<pc, _ttl, now, cache_call, _client, notUniProt>>

\* the await of self._client.get ends
TaskReply ==
    \E i \in DOMAIN tasks :
        /\ tasks[i].pc = "request"
        /\ \E reply \in Replies :
             \E st \in {fetch_reply([tasks[i] EXCEPT !.replies = Append(@, has_results(reply))],
                                    reply, _cache, last_set, now)} :
                TaskStep(i, st)

\* await asyncio.sleep(2 ** attempt) ends; continue
TaskWakes ==
    \E i \in DOMAIN tasks :
        /\ tasks[i].pc = "sleep"
        /\ \E st \in {fetch_continue(tasks[i], _cache, last_set, now)} : TaskStep(i, st)

\* half a TTL passes
HalfTtlPasses ==
    /\ pc = "fetch"
    /\ now < MaxHours * HalfTtl
    /\ now' = now + HalfTtl
    /\ UNCHANGED <<pc, _cache, _ttl, cache_call, last_set, clientVars, notUniProt>>

NextFetch ==
    \/ FetchCall
    \/ TaskReply
    \/ TaskWakes
    \/ HalfTtlPasses

SpecFetch == InitFetch /\ [][NextFetch]_vars


\* the call i has returned
Returned(i) == tasks[i].pc = "done"

\* the queries of the call i went out in the order of the list queries, each
\* after the reply to the one before it
SentInOrder(i) ==
    /\ Len(tasks[i].sent) <= 3
    /\ tasks[i].sent = SubSeq(queries(tasks[i].protein_id, default_organism_id), 1, Len(tasks[i].sent))
    /\ tasks[i].sent # <<>>
         => tasks[i].sent[1][1] = "gene:" /\ tasks[i].sent[Len(tasks[i].sent)][1] \in {"gene:", "accession:", tasks[i].protein_id}
    /\ Len(tasks[i].replies) <= Len(tasks[i].sent)
    /\ Len(tasks[i].sent) <= Len(tasks[i].replies) + 1

\* a 200 response that has results is the last reply of the call i: the call
\* has returned and has sent no query after it
StopsAtFirstResults(i) ==
    \A k \in DOMAIN tasks[i].replies :
        tasks[i].replies[k]
            => /\ k = Len(tasks[i].replies) /\ k = Len(tasks[i].sent)
               /\ Returned(i)
               /\ tasks[i].result.error \in {None, Message("Error parsing UniProt data")}

\* the call i sent queries and none of them was answered with results
NoQueryGaveResults(i) ==
    /\ Returned(i) /\ tasks[i].sent # <<>>
    /\ \A k \in DOMAIN tasks[i].replies : ~tasks[i].replies[k]

\* a call that got no results out of its queries has sent all three and
\* returns the entry of a protein that was not found
NotFoundAfterThree(i) ==
    NoQueryGaveResults(i)
        => /\ Len(tasks[i].sent) = 3
           /\ tasks[i].result = ProteinFeatureData(tasks[i].protein_id, None, <<>>,
                                                   Message("Protein not found in UniProt"))

FetchCallsInOrder ==
    pc = "fetch"
        => \A i \in DOMAIN tasks : SentInOrder(i) /\ StopsAtFirstResults(i) /\ NotFoundAfterThree(i)

\* the step is a call that returns, as the call i
Returns(i) ==
    /\ i \in DOMAIN tasks' /\ tasks'[i].pc = "done"
    /\ i \in DOMAIN tasks => tasks[i].pc # "done"

\* a result other than that of a client without connection is in the cache
\* when the call returns it
ReturnedResultStored ==
    \A i \in 1 .. MaxFetches :
        (Returns(i) /\ tasks'[i].result.error # Message("HTTP client not initialized"))
            => /\ tasks'[i].protein_id \in DOMAIN _cache'
               /\ _cache'[tasks'[i].protein_id][2] = tasks'[i].result
               /\ now - _cache'[tasks'[i].protein_id][1] < _ttl

\* a call for an id whose last stored result is less than the TTL old
\* returns that result and sends no query
CachedResultReturned ==
    \A i \in 1 .. MaxFetches :
        (i \notin DOMAIN tasks /\ i \in DOMAIN tasks' /\ SetWithinTtl(tasks'[i].protein_id))
            => /\ tasks'[i].pc = "done"
               /\ tasks'[i].result = last_set[tasks'[i].protein_id].data
               /\ tasks'[i].sent = <<>>

\* C29: a call of fetch_protein_features sends at most three queries (gene,
\* accession, free text, in that order) and stops at the first 200 response
\* that has results; when no query gives a result it returns the entry with
\* the error 'Protein not found in UniProt'; every returned result except
\* 'HTTP client not initialized' is in the cache, and the next call for the
\* same id within the TTL returns that entry without sending a query.
C29_AtMostThreeQueriesThenCached ==
    /\ []FetchCallsInOrder
    /\ [][pc = "fetch" => (ReturnedResultStored /\ CachedResultReturned)]_vars

\* a call sent its three queries without a result, and the next call for the
\* same id returned the stored entry without a query
C29_NotFoundServedFromCache ==
    /\ pc = "fetch" /\ Len(tasks) = 2
    /\ NoQueryGaveResults(1) /\ Len(tasks[1].sent) = 3
    /\ tasks[2].protein_id = tasks[1].protein_id
    /\ Returned(2) /\ tasks[2].sent = <<>>
    /\ tasks[2].result = not_found(tasks[1].protein_id)

\* a call stopped at results for its second query
C29_StoppedAtSecondQuery ==
    /\ pc = "fetch" /\ Len(tasks) >= 1
    /\ Returned(1) /\ Len(tasks[1].sent) = 2 /\ tasks[1].replies = <<FALSE, TRUE>>
    /\ tasks[1].result.error = None /\ tasks[1].result.sequence_length = PyInt(100)
    /\ Len(tasks[1].result.features) = 1


\* ---------------------------------------------------------------------------
\* fetch_multiple_proteins (app/uniprot_client.py)
\* ---------------------------------------------------------------------------

\* the most ids of a call of fetch_multiple_proteins
MaxIds == 2

\* the lists protein_ids of the calls, ids repeated or not
ProteinIdLists == UNION {[1 .. n -> ProteinIds] : n \in 0 .. MaxIds}

\* an entry an earlier call has stored for the id
StoredEntry(protein_id) == ProteinFeatureData(protein_id, PyInt(100), <<>>, None)

\* the cache of the module when the call begins: empty, or with a fresh entry
\* for one of the ids
CachesAtCall ==
    {EmptyDict} \cup {protein_id :> <<0, StoredEntry(protein_id)>> : protein_id \in ProteinIds}

InitGather ==
    /\ _cache \in CachesAtCall
    /\ last_set = [protein_id \in DOMAIN _cache |-> [at |-> 0, data |-> _cache[protein_id][2]]]
    /\ _ttl = GlobalTtlHours
    /\ now = 0
    /\ cache_call = <<>>
    /\ _client = FALSE
    /\ tasks = <<>>
    /\ FavoritesIdle
    /\ pc = "enter"
    /\ request \in [handler : {"fetch_multiple_proteins"}, protein_ids : ProteinIdLists]
    /\ response = <<>>
    /\ sgd_map = <<>>
    /\ data_dir = <<>>
    /\ ProtIdle
    /\ by_node = <<>>
    /\ membership = <<>> /\ token_sets = <<>> /\ SgdIdle /\ layout = <<>>
    /\ UFIdle
    /\ GdfIdle

\* async with UniProtClient() as client, and the list tasks
GatherEnter ==
    /\ pc = "enter"
    /\ _client' = TRUE
    /\ tasks' = [i \in DOMAIN request.protein_ids |-> new_task(request.protein_ids[i])]
    /\ pc' = "gather"
    /\ UNCHANGED <<cacheVars, notUniProt>>

\* a task runs from its start to its first await or to its return
TaskStarts ==
    /\ pc = "gather"
    /\ \E i \in DOMAIN tasks :
         /\ tasks[i].pc = "start"
         /\ \E st \in {fetch_start(tasks[i], _client, _cache, last_set, _ttl, now)} : TaskStep(i, st)

\* an exception leaves a call of fetch_protein_features: gather keeps it as
\* the result of the task
TaskRaises ==
    /\ pc = "gather"
    /\ \E i \in DOMAIN tasks :
         /\ tasks[i].pc = "start"
         /\ tasks' = [tasks EXCEPT ![i].pc = "done", ![i].raised = TRUE,
                                   ![i].result = [exception |-> "RuntimeError"]]
    /\ UNCHANGED <<pc, cacheVars, _client, notUniProt>>

\* an entry that keeps the exception of its task as it is
unprocessed_result(task, protein_id) == task.result

\* the entry of processed_results for one task
processed_result(task, protein_id) ==
    IF task.raised
    THEN ProteinFeatureData(protein_id, None, <<>>, Message("Error fetching data"))
    ELSE task.result

\* the loop over enumerate(results)
processed_results(results, protein_ids) ==
    [i \in DOMAIN results |-> processed_result(results[i], protein_ids[i])]

\* results = await asyncio.gather(*tasks, return_exceptions=True) is there,
\* and the function returns processed_results
GatherReturn ==
    /\ pc = "gather"
    /\ \A i \in DOMAIN tasks : tasks[i].pc = "done"
    /\ response' = processed_results(tasks, request.protein_ids)
    /\ pc' = "done"
    /\ UNCHANGED <<data_dir, request, sgd_map, protVars, by_node, membership, token_sets,
                   sgdVars, layout, serviceVars, ufVars, gdfVars>>

NextGather ==
    \/ GatherEnter
    \/ TaskStarts
    \/ TaskReply
    \/ TaskWakes
    \/ TaskRaises
    \/ GatherReturn

SpecGather == InitGather /\ [][NextGather]_vars

\* fetch_multiple_proteins has returned
GatherReturned == pc = "done" /\ request.handler = "fetch_multiple_proteins"

\* x is a ProteinFeatureData
IsProteinFeatureData(x) == DOMAIN x = {"protein", "sequence_length", "features", "error"}

\* C24: fetch_multiple_proteins returns one ProteinFeatureData per requested
\* id, in the order of the request, the i-th carrying the i-th id as its
\* protein, whatever the fetches did and in whatever order they ran; a fetch
\* that raised gives an entry with an error message.
C24_OneEntryPerIdInOrder ==
    GatherReturned
        => /\ Len(response) = Len(request.protein_ids)
           /\ \A i \in DOMAIN response :
                /\ IsProteinFeatureData(response[i])
                /\ response[i].protein = request.protein_ids[i]
                /\ tasks[i].raised => response[i].error # None

\* the fetch of the first id raised and that of the second, another id, gave
\* an entry without error after a query
C24_RaisedAndFound ==
    /\ GatherReturned /\ Len(response) = 2
    /\ request.protein_ids[1] # request.protein_ids[2]
    /\ tasks[1].raised /\ response[1].error = Message("Error fetching data")
    /\ tasks[2].sent # <<>> /\ response[2].error = None

\* both fetches were for one id: the second found nothing and stored that
\* while the first waited for its reply, and the first then found the protein
C24_SameIdTwice ==
    /\ GatherReturned /\ Len(response) = 2
    /\ request.protein_ids[1] = request.protein_ids[2]
    /\ response[1].error = None /\ Len(tasks[1].sent) = 3
    /\ response[2].error = Message("Protein not found in UniProt")


\* ---------------------------------------------------------------------------
\* The favorites routes (app/api/routes/favorites.py) over the table
\* favorite_component (alembic revision 202510310001)
\* ---------------------------------------------------------------------------

\* what a step of a favorites route leaves alone
notFavorites == <<notServices, uniprotVars>>

\* the users that send requests: two ordinary users and a superuser
CurrentUsers ==
    {[id |-> "ann", is_superuser |-> FALSE], [id |-> "bob", is_superuser |-> FALSE],
     [id |-> "root", is_superuser |-> TRUE]}

\* the components a favorite can name
FavoriteKeys ==
    {[network_name |-> "BioGRID", filename |-> "a.gdf", component_id |-> c] : c \in 0 .. 1}

\* the most rows the table is given ids for
MaxRows == 2

\* the most requests the workers handle
MaxRequests == 2

\* a row of favorite_component; the primary key id is the key of the table
FavoriteComponent(owner_id, key, title) ==
    [owner_id |-> owner_id, network_name |-> key.network_name, filename |-> key.filename,
     component_id |-> key.component_id, title |-> title, description |-> None]

\* FavoriteComponentCreate: the component, title and description unset
FavoriteComponentCreate(key) == [key |-> key, title |-> None]

\* FavoriteComponentUpdate: a new title
FavoriteComponentUpdate(title) == [title |-> title]

\* the item a handler returns: the row with its id
item_of(table, id) == [id |-> id, row |-> table[id]]

\* the rows that the where clauses of create_favorite select
existing_rows(table, owner_id, key) ==
    {id \in DOMAIN table :
        /\ table[id].owner_id = owner_id
        /\ table[id].network_name = key.network_name
        /\ table[id].filename = key.filename
        /\ table[id].component_id = key.component_id}

\* a check that lets every user through
always_permitted(current_user, row) == FALSE

\* not current_user.is_superuser and (item.owner_id != current_user.id)
not_permitted(current_user, row) ==
    ~current_user.is_superuser /\ row.owner_id # current_user.id

NotFound == HTTPException(404, "Favorite not found")

NotEnoughPermissions == HTTPException(400, "Not enough permissions")

\* item = session.get(FavoriteComponent, id) and the two checks that follow
\* it in read_favorite, update_favorite and delete_favorite
get_checked(table, current_user, id) ==
    IF id \notin DOMAIN table THEN raises(NotFound)
    ELSE IF not_permitted(current_user, table[id]) THEN raises(NotEnoughPermissions)
    ELSE returns(id)

\* a worker that handles no request
NoRequest == [pc |-> "idle", handler |-> "none", n |-> 0]

\* the locals of the handler a worker runs: where it stands, its arguments,
\* what it has read, and its answer once it has one; n counts the requests
\* of the worker
FavCall(call, handler, current_user, args, at, locals, result) ==
    [pc |-> at, handler |-> handler, n |-> call.n + 1, current_user |-> current_user,
     args |-> args, locals |-> locals, result |-> result]

\* the handler goes on to its next statement, or answers
FavAt(call, at, locals) == [call EXCEPT !.pc = at, !.locals = locals]

FavAnswer(call, result) == [call EXCEPT !.pc = "done", !.result = result]

\* the requests the workers ts have taken
RECURSIVE requests_of(_, _)
requests_of(calls, ts) ==
    IF ts = {} THEN 0
    ELSE CHOOSE sum \in {calls[t].n + requests_of(calls, ts \ {t}) :
                           t \in {CHOOSE t \in ts : TRUE}} : TRUE

\* the worker t is free and a further request arrives
Arrives(t) ==
    /\ pc = "serving"
    /\ fav_calls[t].pc \in {"idle", "done"}
    /\ requests_of(fav_calls, Threads) < MaxRequests

\* the worker t takes the step from call to next_call, the table becoming
\* next_table
FavStep(t, next_call, next_table) ==
    /\ fav_calls' = [fav_calls EXCEPT ![t] = next_call]
    /\ favorite_component' = next_table
    /\ UNCHANGED <<pc, notFavorites>>

\* an empty table, or one with a favorite of ann
InitFavorites ==
    /\ favorite_component \in
         {EmptyDict} \cup {1 :> FavoriteComponent("ann", key, None) : key \in FavoriteKeys}
    /\ uuids = Cardinality(DOMAIN favorite_component)
    /\ fav_calls = [t \in Threads |-> NoRequest]
    /\ pc = "serving"
    /\ sgd_map = <<>>
    /\ data_dir = <<>> /\ request = <<>> /\ response = <<>>
    /\ ProtIdle
    /\ by_node = <<>>
    /\ membership = <<>> /\ token_sets = <<>> /\ SgdIdle /\ layout = <<>>
    /\ UniProtIdle
    /\ UFIdle
    /\ GdfIdle

\* the ids of the rows a user may list
listed_rows(table, current_user) ==
    IF current_user.is_superuser THEN DOMAIN table
    ELSE {id \in DOMAIN table : table[id].owner_id = current_user.id}

\* the orders a select without ORDER BY can return the rows ids in
Orders(ids) ==
    {order \in [1 .. Cardinality(ids) -> ids] :
        \A i, k \in DOMAIN order : i # k => order[i] # order[k]}

\* .offset(skip).limit(limit) of the rows in one order
offset_limit(order, skip, limit) ==
    SubSeq(order, skip + 1, IF skip + limit < Len(order) THEN skip + limit ELSE Len(order))

\* skip and limit of a request: the defaults, or the second row alone
Pages == {[skip |-> 0, limit |-> 100], [skip |-> 1, limit |-> 1]}

\* read_favorites: the count statement
ReadFavoritesCount(t) ==
    /\ Arrives(t)
    /\ \E current_user \in CurrentUsers, page \in Pages :
         FavStep(t, FavCall(fav_calls[t], "read_favorites", current_user, page, "items",
                            [count |-> Cardinality(listed_rows(favorite_component, current_user))],
                            None),
                 favorite_component)
    /\ UNCHANGED uuids

\* read_favorites: the select of the items, and the answer
ReadFavoritesItems(t) ==
    /\ fav_calls[t].pc = "items"
    /\ \E order \in Orders(listed_rows(favorite_component, fav_calls[t].current_user)) :
         FavStep(t, FavAnswer(fav_calls[t],
                              returns([data |-> [i \in DOMAIN offset_limit(order, fav_calls[t].args.skip,
                                                                              fav_calls[t].args.limit)
                                                   |-> item_of(favorite_component,
                                                               offset_limit(order, fav_calls[t].args.skip,
                                                                            fav_calls[t].args.limit)[i])],
                                       count |-> fav_calls[t].locals.count])),
                 favorite_component)
    /\ UNCHANGED uuids

\* read_favorite
ReadFavorite(t) ==
    /\ Arrives(t)
    /\ \E current_user \in CurrentUsers, id \in 1 .. MaxRows :
         \E got \in {get_checked(favorite_component, current_user, id)} :
            FavStep(t, FavCall(fav_calls[t], "read_favorite", current_user, [id |-> id], "done",
                               None,
                               IF got.raised THEN got
                               ELSE returns(item_of(favorite_component, id))),
                    favorite_component)
    /\ UNCHANGED uuids

\* create_favorite: the select of an existing favorite, which answers the
\* request when there is one
CreateSelect(t) ==
    /\ Arrives(t)
    /\ uuids + Cardinality({w \in Threads : fav_calls[w].pc = "insert"}) < MaxRows
    /\ \E current_user \in CurrentUsers, key \in FavoriteKeys :
         IF existing_rows(favorite_component, current_user.id, key) # {}
         THEN \E existing \in existing_rows(favorite_component, current_user.id, key) :
                 FavStep(t, FavCall(fav_calls[t], "create_favorite", current_user,
                                    [item_in |-> FavoriteComponentCreate(key)], "done", None,
                                    returns(item_of(favorite_component, existing))),
                         favorite_component)
         ELSE FavStep(t, FavCall(fav_calls[t], "create_favorite", current_user,
                                 [item_in |-> FavoriteComponentCreate(key)], "insert", None, None),
                      favorite_component)
    /\ UNCHANGED uuids

\* create_favorite: session.add(item), session.commit(), session.refresh(item)
CreateInsert(t) ==
    /\ fav_calls[t].pc = "insert"
    /\ uuids' = uuids + 1
    /\ \E table \in {Put(favorite_component, uuids + 1,
                          FavoriteComponent(fav_calls[t].current_user.id,
                                            fav_calls[t].args.item_in.key,
                                            fav_calls[t].args.item_in.title))} :
         FavStep(t, FavAnswer(fav_calls[t], returns(item_of(table, uuids + 1))), table)

\* update_favorite: session.get and the checks
UpdateGet(t) ==
    /\ Arrives(t)
    /\ \E current_user \in CurrentUsers, id \in 1 .. MaxRows :
         \E got \in {get_checked(favorite_component, current_user, id)} :
            FavStep(t, FavCall(fav_calls[t], "update_favorite", current_user,
                               [id |-> id, item_in |-> FavoriteComponentUpdate("mine")],
                               IF got.raised THEN "done" ELSE "update",
                               None, IF got.raised THEN got ELSE None),
                    favorite_component)
    /\ UNCHANGED uuids

\* update_favorite: item.sqlmodel_update(update_dict), session.commit(),
\* session.refresh(item).  When the row was deleted meanwhile the session
\* raises and the request ends with a server error.
UpdateCommit(t) ==
    /\ fav_calls[t].pc = "update"
    /\ IF fav_calls[t].args.id \in DOMAIN favorite_component
       THEN \E table \in {[favorite_component EXCEPT
                               ![fav_calls[t].args.id].title = fav_calls[t].args.item_in.title]} :
               FavStep(t, FavAnswer(fav_calls[t], returns(item_of(table, fav_calls[t].args.id))),
                       table)
       ELSE FavStep(t, FavAnswer(fav_calls[t], raises([type |-> "StaleDataError"])),
                    favorite_component)
    /\ UNCHANGED uuids

\* delete_favorite: session.get and the checks
DeleteGet(t) ==
    /\ Arrives(t)
    /\ \E current_user \in CurrentUsers, id \in 1 .. MaxRows :
         \E got \in {get_checked(favorite_component, current_user, id)} :
            FavStep(t, FavCall(fav_calls[t], "delete_favorite", current_user, [id |-> id],
                               IF got.raised THEN "done" ELSE "delete",
                               None, IF got.raised THEN got ELSE None),
                    favorite_component)
    /\ UNCHANGED uuids

\* delete_favorite: session.delete(item), session.commit(); a row that is
\* gone already is passed over with a warning
DeleteCommit(t) ==
    /\ fav_calls[t].pc = "delete"
    /\ FavStep(t, FavAnswer(fav_calls[t], returns([message |-> "Favorite deleted successfully"])),
               del(favorite_component, fav_calls[t].args.id))
    /\ UNCHANGED uuids

NextFavorites ==
    \E t \in Threads :
        \/ ReadFavoritesCount(t)
        \/ ReadFavoritesItems(t)
        \/ ReadFavorite(t)
        \/ CreateSelect(t)
        \/ CreateInsert(t)
        \/ UpdateGet(t)
        \/ UpdateCommit(t)
        \/ DeleteGet(t)
        \/ DeleteCommit(t)

SpecFavorites == InitFavorites /\ [][NextFavorites]_vars


\* the owner and the component of a stored favorite
FavoriteTuple(row) == <<row.owner_id, row.network_name, row.filename, row.component_id>>

\* the part of C25 that holds: a create for a component the user has a
\* favorite of already returns a row of that user and component and adds none
CreateReturnsExisting ==
    \A t \in Threads :
        (/\ fav_calls'[t].n = fav_calls[t].n + 1
         /\ fav_calls'[t].handler = "create_favorite"
         /\ existing_rows(favorite_component, fav_calls'[t].current_user.id,
                          fav_calls'[t].args.item_in.key) # {})
            => /\ fav_calls'[t].pc = "done"
               /\ ~fav_calls'[t].result.raised
               /\ fav_calls'[t].result.body.id
                    \in existing_rows(favorite_component, fav_calls'[t].current_user.id,
                                      fav_calls'[t].args.item_in.key)
               /\ favorite_component' = favorite_component

C25_CreateReturnsExisting == [][CreateReturnsExisting]_vars

\* the part of C25 that holds: update_favorite and delete_favorite add no
\* row and change the owner and the component of none
C25_UpdateAndDeleteKeepTuples ==
    [][\A t \in Threads :
          (fav_calls[t].pc \in {"update", "delete"} /\ fav_calls'[t] # fav_calls[t])
              => /\ DOMAIN favorite_component' \subseteq DOMAIN favorite_component
                 /\ \A id \in DOMAIN favorite_component' :
                      FavoriteTuple(favorite_component'[id]) = FavoriteTuple(favorite_component[id])]_vars

\* C25: after any sequence or interleaving of create_favorite,
\* update_favorite and delete_favorite requests the table holds no two
\* favorites with the same owner_id, network_name, filename and component_id.
C25_NoDuplicateFavorites ==
    pc = "serving"
        => \A a, b \in DOMAIN favorite_component :
              a # b => FavoriteTuple(favorite_component[a]) # FavoriteTuple(favorite_component[b])

\* two requests of one user for one component were both answered with a
\* new row
C25_DuplicateStored ==
    /\ pc = "serving"
    /\ \A t \in Threads :
         /\ fav_calls[t].pc = "done" /\ fav_calls[t].handler = "create_favorite"
         /\ ~fav_calls[t].result.raised
    /\ fav_calls["t1"].current_user = fav_calls["t2"].current_user
    /\ fav_calls["t1"].args = fav_calls["t2"].args
    /\ fav_calls["t1"].result.body.id # fav_calls["t2"].result.body.id
    /\ FavoriteTuple(fav_calls["t1"].result.body.row) = FavoriteTuple(fav_calls["t2"].result.body.row)
    /\ {fav_calls["t1"].result.body.id, fav_calls["t2"].result.body.id} \subseteq DOMAIN favorite_component

\* the step is the first one of a request for one favorite that the worker t
\* takes: session.get and the checks
LooksUp(t) ==
    /\ fav_calls'[t].n = fav_calls[t].n + 1
    /\ fav_calls'[t].handler \in {"read_favorite", "update_favorite", "delete_favorite"}

\* the request ends with the exception exc and the table is what it was
Refused(t, exc) ==
    /\ fav_calls'[t].pc = "done"
    /\ fav_calls'[t].result = raises(exc)
    /\ favorite_component' = favorite_component

\* what C26 says of read_favorite, update_favorite and delete_favorite
OwnerChecked ==
    \A t \in Threads :
        LooksUp(t)
            => IF fav_calls'[t].args.id \notin DOMAIN favorite_component
               THEN Refused(t, HTTPException(404, "Favorite not found"))
               ELSE (/\ ~fav_calls'[t].current_user.is_superuser
                     /\ favorite_component[fav_calls'[t].args.id].owner_id # fav_calls'[t].current_user.id)
                       => Refused(t, HTTPException(400, "Not enough permissions"))

\* what C26 says of read_favorites
OnlyOwnListed ==
    \A t \in Threads :
        (/\ pc = "serving" /\ fav_calls[t].pc = "done" /\ fav_calls[t].handler = "read_favorites"
         /\ ~fav_calls[t].current_user.is_superuser)
            => /\ ~fav_calls[t].result.raised
               /\ \A i \in DOMAIN fav_calls[t].result.body.data :
                    fav_calls[t].result.body.data[i].row.owner_id = fav_calls[t].current_user.id

\* C26: read_favorite, update_favorite and delete_favorite of a user who is
\* neither the owner nor a superuser fail with 'Not enough permissions' and
\* leave every stored favorite as it was, an unknown id fails with 404 and
\* changes nothing, and read_favorites of a user who is no superuser returns
\* only favorites whose owner_id is that user.
C26_FavoritesOwnerScoped == []OnlyOwnListed /\ [][OwnerChecked]_vars

\* bob asked to delete a favorite of ann: the request was refused and the
\* favorite is still stored
C26_DeleteRefused ==
    /\ pc = "serving"
    /\ \E t \in Threads :
         /\ fav_calls[t].pc = "done" /\ fav_calls[t].handler = "delete_favorite"
         /\ fav_calls[t].current_user.id = "bob"
         /\ fav_calls[t].result = raises(NotEnoughPermissions)
         /\ fav_calls[t].args.id \in DOMAIN favorite_component
         /\ favorite_component[fav_calls[t].args.id].owner_id = "ann"

\* ann listed her favorites while the table held one of bob as well
C26_OwnListed ==
    /\ pc = "serving"
    /\ \E t \in Threads :
         /\ fav_calls[t].pc = "done" /\ fav_calls[t].handler = "read_favorites"
         /\ fav_calls[t].current_user.id = "ann"
         /\ Len(fav_calls[t].result.body.data) = 1
         /\ \E id \in DOMAIN favorite_component : favorite_component[id].owner_id = "bob"


\* ---------------------------------------------------------------------------
\* The parent map of _compute_components as a forest
\* ---------------------------------------------------------------------------

\* the node reached from x by following parent, without changing the map,
\* in at most fuel steps
RECURSIVE walk(_, _, _)
walk(p, x, fuel) ==
    IF p[x] = x \/ fuel = 0 THEN x ELSE walk(p, p[x], fuel - 1)

\* the root of the tree of x
RootOf(p, x) == walk(p, x, Cardinality(DOMAIN p))

\* the roots of the map
Roots(p) == {x \in DOMAIN p : p[x] = x}

\* the node ids in the tree of the root r
TreeOf(p, r) == {x \in DOMAIN p : RootOf(p, x) = r}

\* every node has a parent among the nodes and reaches a root
IsForest(p) ==
    \A x \in DOMAIN p : p[x] \in DOMAIN p /\ RootOf(p, x) \in Roots(p)

\* find(x) ends at the root of x, a node that is its own parent
FindEndsAtRoot(p) ==
    \A x \in DOMAIN p :
        /\ find(p, x).root = RootOf(p, x)
        /\ find(p, x).parent[find(p, x).root] = find(p, x).root

\* path halving inside find(x) leaves every node y with the root it had
FindKeepsRoots(p) ==
    \A x \in DOMAIN p :
        /\ IsForest(find(p, x).parent)
        /\ \A y \in DOMAIN p : RootOf(find(p, x).parent, y) = RootOf(p, y)

\* size[r] of a root is the number of node ids in its tree
SizesCountTrees(p, sz) ==
    \A r \in Roots(p) : sz[r] = Cardinality(TreeOf(p, r))

\* comp_sizes counts the entries of node_ids the assignment loop has done
CompSizesSum ==
    /\ SumOf(comp_sizes) = j
    /\ pc = "done" => SumOf(comp_sizes) = Len(node_ids)

ForestKept ==
    pc \in {"union", "assign", "done"}
        => /\ DOMAIN parent = Range(node_ids) /\ DOMAIN size = Range(node_ids)
           /\ IsForest(parent)
           /\ FindEndsAtRoot(parent)
           /\ FindKeepsRoots(parent)
           /\ SizesCountTrees(parent, size)
           /\ CompSizesSum

\* a step of the union phase that joins two trees hangs the root of the one
\* that is not the larger under the root of the other, which takes the sum
\* of the sizes; no step makes a node a root
UnionAttachesSmaller ==
    pc = "union"
        => /\ Roots(parent') \subseteq Roots(parent)
           /\ Roots(parent') # Roots(parent)
                => \E ra, rb \in Roots(parent) :
                      /\ ra # rb
                      /\ Roots(parent') = Roots(parent) \ {rb}
                      /\ parent'[rb] = ra
                      /\ size[rb] <= size[ra]
                      /\ size'[ra] = size[ra] + size[rb]
                      /\ TreeOf(parent', ra) = TreeOf(parent, ra) \cup TreeOf(parent, rb)

\* C30: throughout _compute_components the parent map is a forest: find(x)
\* ends at a node r with parent[r] = r, path halving inside find changes the
\* root no node reaches, union hangs the root of the smaller tree under the
\* root of the larger, size[r] of every root is the number of distinct node
\* ids in its tree, and the returned comp_sizes sum to the length of node_ids.
C30_ParentMapIsForest == []ForestKept /\ [][UnionAttachesSmaller]_vars

\* the union phase has built a tree with a node two steps below its root,
\* which a find of that node will halve
C30_DeepTreeBuilt ==
    /\ pc = "union"
    /\ \E x \in DOMAIN parent :
         /\ parent[x] # x /\ parent[parent[x]] # parent[x]
         /\ size[RootOf(parent, x)] >= 3
         /\ find(parent, x).parent # parent

\* the components of a list with a repeated id were returned, their sizes
\* summing to the length of the list
C30_SizesOfRepeatedIdsReturned ==
    /\ pc = "done" /\ node_ids # <<>>
    /\ Cardinality(Range(node_ids)) < Len(node_ids)
    /\ Cardinality(DOMAIN comp_sizes) >= 2
    /\ SumOf(comp_sizes) = Len(node_ids)


-----------------------------------------------------------------------------
(* The tokens get_proteins lists for a file, read by                        *)
(* _collect_proteins_from_gdf, against the tokens of the components of the *)
(* file, built from _parse_nodes_and_edges by the selected filter.         *)

\* the proteins that protein_to_files lists for a file
ListedForFile(filename) == {t \in DOMAIN protein_to_files : filename \in protein_to_files[t]}

\* the union of the token sets of comp_to_tokens for a parsed file
component_tokens_of(r) ==
    IF r.raised THEN {}
    ELSE UNION Range(comp_to_tokens(r.node_to_tokens,
                                    _compute_components(r.node_ids, r.edges).node_to_comp))

\* the tokens of the components of a file
ComponentTokensOfFile(ls, name_mode, map) ==
    component_tokens_of(_parse_nodes_and_edges(ls, name_mode, map))

\* the files the collecting loop has done
CollectedFiles == {gdf_files[i] : i \in 1..fi}

\* C28: the set of protein tokens that _collect_proteins_from_gdf reports
\* for a file equals the union of the token sets of the components built
\* from _parse_nodes_and_edges for that file, node lines that share an id
\* included, so every protein listed for a file belongs to a component of
\* that file
C28_ListedTokensAreComponentTokens ==
    \A f \in CollectedFiles :
        ListedForFile(f) = ComponentTokensOfFile(NetworkFiles[f], request.name_mode, sgd_map)

\* the node ids of a file are distinct
DistinctFileIds(ls, name_mode, map) ==
    \/ _parse_nodes_and_edges(ls, name_mode, map).raised
    \/ Cardinality(Range(_parse_nodes_and_edges(ls, name_mode, map).node_ids))
            = Len(_parse_nodes_and_edges(ls, name_mode, map).node_ids)

\* for the files whose node ids are distinct the two token sets agree
C28_HoldsOnDistinctIds ==
    \A f \in CollectedFiles :
        DistinctFileIds(NetworkFiles[f], request.name_mode, sgd_map)
            => ListedForFile(f) = ComponentTokensOfFile(NetworkFiles[f], request.name_mode, sgd_map)

\* a file with two components was collected and its tokens agree
C28_TwoComponentsAgree ==
    /\ pc = "selected" /\ request.network_name = "pairs"
    /\ \A f \in CollectedFiles :
        /\ ListedForFile(f) = ComponentTokensOfFile(NetworkFiles[f], request.name_mode, sgd_map)
        /\ Cardinality(ListedForFile(f)) >= 3


-----------------------------------------------------------------------------
(* The subgraph specification: one request to get_component_subgraph for   *)
(* the file a.gdf of a network that holds this file only.                  *)

\* "01,Y1"
L_01_Y1 ==
    <<"0", "1", ",", "Y", "1">>

\* the lines the file is made of
SubgraphLines == GdfLines \cup {L_01_Y1}

\* the contents of the file
SubgraphContents == UNION {[1..n -> SubgraphLines] : n \in 0..MaxLines}

\* the data directory with the network net that holds a.gdf
one_file_dir(ls) == [net |-> [isdir |-> TRUE, files |-> (N_a_gdf :> ls)]]

\* the requests for the file, and one for a file the network does not hold
SubgraphRequests ==
    [handler : {"get_component_subgraph"}, network_name : {"net"}, filename : {N_a_gdf, N_zz_gdf},
     component_id : 0..MaxComponentId, name_mode : {"systematic"}]

InitSubgraph ==
    /\ data_dir \in {one_file_dir(ls) : ls \in SubgraphContents}
    /\ request \in SubgraphRequests
    /\ request.filename = N_zz_gdf => data_dir = one_file_dir(<<>>)
    /\ sgd_map = EmptyDict
    /\ response = <<>>
    /\ pc = "lookup"
    /\ ProtIdle
    /\ by_node = <<>>
    /\ OtherIdle
    /\ UFIdle
    /\ GdfIdle

NextSubgraph ==
    \/ SubgraphFails
    \/ SubgraphReturn

SpecSubgraph == InitSubgraph /\ [][NextSubgraph]_vars

\* the file of the request, as _parse_nodes_and_edges reads it
RequestedFile ==
    _parse_nodes_and_edges(data_dir[request.network_name].files[request.filename],
                           request.name_mode, sgd_map)

\* the component ids _compute_components gives the node ids of the file
RequestedNodeToComp == _compute_components(RequestedFile.node_ids, RequestedFile.edges).node_to_comp

\* the id is a node id of the requested component
InRequestedComponent(n) ==
    n \in DOMAIN RequestedNodeToComp /\ RequestedNodeToComp[n] = request.component_id

\* the edge joins two nodes of the requested component
EdgeInRequestedComponent(e) == InRequestedComponent(e[1]) /\ InRequestedComponent(e[2])

\* the ids of the node lines of the requested component, in file order
ComponentNodeIds == SelectSeq(RequestedFile.node_ids, InRequestedComponent)

\* the parsed edges inside the requested component, in file order
ComponentEdges == SelectSeq(RequestedFile.edges, EdgeInRequestedComponent)

\* the ids of the returned nodes
ReturnedNodeIds ==
    [i \in DOMAIN response.body.nodes |-> str(Get(response.body.nodes[i], S_id, PyStr(<<>>)))]

\* the endpoints of the returned edges
ReturnedEdges ==
    [i \in DOMAIN response.body.edges |->
        <<str(Get(response.body.edges[i], S_source, PyStr(<<>>))),
          str(Get(response.body.edges[i], S_target, PyStr(<<>>)))>>]

\* get_component_subgraph returned a graph
SubgraphReturned ==
    pc = "done" /\ request.handler = "get_component_subgraph" /\ response.status = 200

\* C27: get_component_subgraph returns exactly the nodes that
\* _compute_components assigns to the requested component, one per node
\* line, and exactly the parsed edges with both endpoints in it: the ids
\* and endpoints parse_gdf_to_cytoscape derives are those
\* _parse_nodes_and_edges derives for the same lines
C27_SubgraphIsComponent ==
    SubgraphReturned =>
        /\ ReturnedNodeIds = ComponentNodeIds
        /\ ReturnedEdges = ComponentEdges

\* the returned nodes and edges lie in the requested component
C27_ReturnedLiesInComponent ==
    SubgraphReturned =>
        /\ \A i \in DOMAIN ReturnedNodeIds : InRequestedComponent(ReturnedNodeIds[i])
        /\ \A i \in DOMAIN ReturnedEdges : EdgeInRequestedComponent(ReturnedEdges[i])

\* the second component of a file was returned whole
C27_ComponentReturned ==
    /\ SubgraphReturned /\ request.component_id = 1
    /\ ReturnedNodeIds = ComponentNodeIds /\ ReturnedEdges = ComponentEdges
    /\ Len(ReturnedNodeIds) >= 1

\* a node line of the requested component is missing from the answer
C27_NodeLineMissing ==
    /\ SubgraphReturned
    /\ Len(ReturnedNodeIds) < Len(ComponentNodeIds)

=============================================================================
